---------------------------- MODULE Spec2Model ----------------------------
(***************************************************************************)
(* A model of litmus: the circuit breaker (src/src/loop/circuit-breaker.ts),*)
(* the iteration controller runRalphLoop (src/src/loop/ralph.ts), the      *)
(* verification orchestrator runAllScenarios (src/unnamed/part_002) and    *)
(* the action executor executeScenario (src/src/runner/executor.ts).       *)
(*                                                                         *)
(* Three specifications share the module's variables:                      *)
(*   SpecCB   the CircuitBreaker class driven through record/shouldStop    *)
(*            with any summary runAllScenarios can return;                 *)
(*   Spec     runRalphLoop, one action per await point of the loop body;   *)
(*   SpecRun  runAllScenarios with executeScenario run action by action.   *)
(* A specification leaves the variables of the others at their initial     *)
(* values.                                                                 *)
(*                                                                         *)
(* In Spec and SpecCB scenario file paths are the integers 1..n in         *)
(* ascending path order; in SpecRun they are texts, sorted by the loader   *)
(* (scenarios/index.ts:46).                                                *)
(* Optional values (T | undefined) are sequences of length at most one.    *)
(***************************************************************************)
EXTENDS Integers, Sequences, FiniteSets, TLC

\* ------------------------------------------------------------- bounds
\* Number of scenario files seen by the loop and the breaker.
NumScenarios == 5
\* Largest options.maxIterations the loop is started with.
MaxIterations == 5
\* Longest history the breaker is driven to on its own.
MaxHistory == 5
\* Number of scenario files in the directory of a detailed verification run.
MaxRunScenarios == 2
\* Longest action list the translator returns.
MaxActions == 3

\* new CircuitBreaker(5) in runRalphLoop; also the constructor's default.
DefaultWindow == 5
\* history.length < 3 in shouldStop and getStuckScenarios.
MinRecords == 3
\* current.failed > bestSoFar + 3.
RegressionMargin == 3
\* history.slice(-4) in the oscillation check.
OscillationSpan == 4

VARIABLES
    \* CircuitBreaker
    history,                \* this.history: IterationRecord[]
    maxStagnantIterations,  \* this.maxStagnantIterations
    stopReason,             \* what the last shouldStop() call returned
    stuck                   \* what the last getStuckScenarios() call returned

cbVars == <<history, maxStagnantIterations, stopReason, stuck>>

VARIABLES
    \* runRalphLoop
    pc,                 \* position: "coding", "verifying", "deciding",
                        \* "finally", "returned", "threw" ("idle": not run)
    maxIterations,      \* options.maxIterations
    iteration,          \* the for loop's counter
    agentResult,        \* the resolved value of invokeCodingAgent, if any
    lastSummary,        \* let lastSummary: VerificationSummary | undefined
    lastFailureReport,  \* let lastFailureReport: string | undefined
    result,             \* the LoopResult the caller receives, if any
    thrown,             \* the stage whose exception is propagating, or "none"
    browser,            \* executor.ts module variable: "none" or "open"
    \* what has happened so far
    agentCalls,         \* number of invokeCodingAgent calls
    agentThrew,         \* whether an invokeCodingAgent call threw
    verifyStarted,      \* iterations in which runAllScenarios was called
    runs,               \* runs[k]: how the k-th iteration's verification ended
    reportsWritten,     \* iterations whose failures-<n>.md was written
    serverStops,        \* number of stopDevServer calls
    prompts,            \* prompts[k]: the prompt built for the k-th agent call
    files               \* the files of .litmus: path |-> content

loopVars == <<pc, maxIterations, iteration, agentResult, lastSummary,
              lastFailureReport, result, thrown, browser, agentCalls,
              agentThrew, verifyStarted, runs, reportsWritten, serverStops,
              prompts, files>>

VARIABLES
    \* runAllScenarios
    rpc,            \* position: "load", "filter", "setup", "server",
                    \* "scenarios", "executing", "done", "threw" ("idle")
    scenarios,      \* let scenarios: the file paths, ascending
    scenarioIndex,  \* the scenario loop's i, 1-based
    results,        \* const results: VerificationResult[]
    summary,        \* the VerificationSummary returned, if any
    runError,       \* the message of the error runAllScenarios threw
    \* executeScenario
    epc,            \* position: "setup", "loop", "finally", "returned",
                    \* "threw" ("idle": not running)
    actions,        \* actions.length
    actionIndex,    \* the action loop's i, 1-based
    stepResults,    \* const stepResults: StepResult[]
    context,        \* let context: "undefined", "open" or "closed"
    completion,     \* what executeScenario returns or throws once the
                    \* finally block has run
    openContexts,   \* number of browsing contexts open
    \* what has happened so far
    createdContexts,\* number of browsing contexts created
    stages,         \* the stages of runAllScenarios started, in order
    events          \* events[j]: what happened while scenario j was run

runVars == <<rpc, scenarios, scenarioIndex, results, summary, runError, epc,
             actions, actionIndex, stepResults, context, completion,
             openContexts, createdContexts, stages, events>>

VARIABLES
    \* the command line (cli/verify, cli/loop)
    command,        \* "verify" or "loop" ("none": no command is run)
    cpc,            \* position: "running", "finally", "returned", "exited"
                    \* ("idle": no command is run)
    exitStatus      \* the status the process exited with, if it has

cmdVars == <<command, cpc, exitStatus>>

VARIABLES
    \* utils/dev-server
    spc,            \* position in ensureDevServer: "probe", "stop", "start",
                    \* "poll", "returned", "threw" ("idle": not called)
    devCommand,     \* whether a start command is configured
    serverProcess,  \* let serverProcess: a child's id, or NoProcess
    running,        \* the children whose process is alive
    elapsed,        \* seconds since waitForServer took its start time
    probes,         \* number of isServerReady calls
    lastProbe,      \* the outcome of the last fetch
    srvError,       \* the message of the error ensureDevServer threw
    serverLog       \* the signals sent and the processes spawned, in order

srvVars == <<spc, devCommand, serverProcess, running, elapsed, probes,
             lastProbe, srvError, serverLog>>

VARIABLES
    \* runner/translator
    tpc,            \* position in translateScenario: "call", "parse",
                    \* "returned", "threw" ("idle": not called)
    response,       \* the text chat() resolved with, as characters
    modelCalls,     \* number of chat() calls
    translated,     \* the actions returned, if any
    trError         \* the error thrown, if any

trVars == <<tpc, response, modelCalls, translated, trError>>

VARIABLES
    \* runner/executor: one pass of the action loop on one element
    apc,            \* "start", "settled" ("idle": not run)
    action,         \* the element of the action list
    baseUrl,        \* options.baseUrl, as characters
    page,           \* what the page answers to the calls made on it
    located,        \* what resolveLocator returned, if called
    slept,          \* milliseconds passed to waitForTimeout, if called
    stepOutcome,    \* "passed", "failed" (executeAction threw) or
                    \* "rejected" (thrown outside the inner try)
    stepError       \* the message of the error thrown, or "none"

actVars == <<apc, action, baseUrl, page, located, slept, stepOutcome,
             stepError>>

VARIABLES
    \* scenarios: one scenario written as text and read back
    wpc,            \* "start", "formatted", "parsed" ("idle": not run)
    scnInput,       \* the ScenarioInput given to formatScenario
    scnText,        \* the text formatScenario returned, as characters
    scnParsed       \* the Scenario parseScenario returned

scnVars == <<wpc, scnInput, scnText, scnParsed>>

VARIABLES
    \* loop/coding-agent: one call of invokeClaude
    gpc,            \* "start", "spawned" ("idle": not run)
    timer,          \* "unset", "armed", "fired", "cleared"
    procEvents,     \* the events delivered to the handlers, in order
    chunks,         \* stdout chunks received
    errChunks,      \* stderr chunks received
    settlement,     \* the value the promise is resolved with, if settled
    resolveCalls,   \* every value passed to resolve, in order
    signals         \* SIGTERM signals sent to the process

agtVars == <<gpc, timer, procEvents, chunks, errChunks, settlement,
             resolveCalls, signals>>

VARIABLES
    \* teardown: closeBrowser and stopDevServer called in succession
    closeLog        \* what each closeBrowser call did, in order: "nothing",
                    \* "closed", or "rejected" (browser.close() rejected)

tdVars == <<closeLog>>

moreVars == <<actVars, scnVars, agtVars, tdVars>>

\* The variables outside the breaker, the loop and the runner.
extVars == <<cmdVars, srvVars, trVars, moreVars>>

vars == <<cbVars, loopVars, runVars, extVars>>

\* ------------------------------------------------------------ helpers
Undefined == <<>>
Some(x) == <<x>>
IsDefined(o) == o # <<>>

Max(a, b) == IF a >= b THEN a ELSE b
Min(a, b) == IF a <= b THEN a ELSE b

RECURSIVE SetMin(_)
SetMin(S) ==
    LET x == CHOOSE y \in S : TRUE
    IN  IF S = {x} THEN x ELSE Min(x, SetMin(S \ {x}))

\* Array.prototype.slice(start) with a relative start index: a negative start
\* counts from the end and is clamped at 0, a non-negative one is clamped at
\* the length (so slice(-0) is the whole array).
Slice(s, start) ==
    LET from == IF start < 0 THEN Max(Len(s) + start, 0) ELSE Min(start, Len(s))
    IN  SubSeq(s, from + 1, Len(s))

\* What slice leaves of the array it is called on: all of it (splice would
\* take the same elements out of it).
AfterSplice(s, start) == SubSeq(s, 1, Len(s) - Len(Slice(s, start)))

AfterSlice(s, start) == s

\* Array.prototype.filter / map on sequences.
Filter(s, Keep(_)) == SelectSeq(s, Keep)
Map(s, F(_)) == [k \in 1..Len(s) |-> F(s[k])]

RECURSIVE Concat(_)
Concat(ss) == IF ss = <<>> THEN <<>> ELSE Head(ss) \o Concat(Tail(ss))

\* JSON.stringify of a string[]: "[" then the quoted elements separated by
\* commas then "]", as a sequence of tokens.
JSONstringify(arr) ==
    <<"[">> \o
    Concat([k \in 1..Len(arr) |->
              (IF k > 1 THEN <<",">> ELSE <<>>) \o <<"\"", arr[k], "\"">>]) \o
    <<"]">>

\* ------------------------------------------------ VerificationSummary
\* part_002 lines 131-137: the summary built from the results list.
Summarize(rs) ==
    [ total   |-> Len(rs),
      passed  |-> Len(Filter(rs, LAMBDA r : r.passed)),
      failed  |-> Len(Filter(rs, LAMBDA r : ~r.passed)),
      results |-> rs ]

\* The results of a run over scenarios 1..n in which exactly the scenarios
\* of `failing` do not pass; only the fields the loop and the breaker read.
ResultsOf(n, failing) ==
    [k \in 1..n |-> [scenario |-> k, passed |-> k \notin failing]]

\* The failing sets a verification run is driven with: scenarios 1 and 2
\* fail independently, or every scenario fails.
FailingChoices == SUBSET {1, 2} \cup {1..NumScenarios}

Summaries == {Summarize(ResultsOf(NumScenarios, f)) : f \in FailingChoices}

\* ----------------------------------------------------- CircuitBreaker
\* record(iteration, summary): the history with one record appended.
\* Mutant of record: the paths of all results are kept, not only those of
\* the results that did not pass.
record_Unfiltered(h, iter, sm) ==
    Append(h,
      [ iteration        |-> iter,
        passed           |-> sm.passed,
        failed           |-> sm.failed,
        failingScenarios |-> Map(sm.results, LAMBDA r : r.scenario) ])

record(h, iter, sm) ==
    Append(h,
      [ iteration        |-> iter,
        passed           |-> sm.passed,
        failed           |-> sm.failed,
        failingScenarios |->
            Map(Filter(sm.results, LAMBDA r : ~r.passed),
                LAMBDA r : r.scenario) ])

NoProgress == "No progress"
Regression == "Regression detected"
Oscillation == "Oscillation detected"
Continue == "undefined"

\* Mutant of stagnant: the window is not required to be full.
stagnant_NotFull(h, n) ==
    LET recent == Slice(h, 0 - n)
        failCounts == Map(recent, LAMBDA r : r.failed)
    IN  /\ \A k \in 1..Len(failCounts) : failCounts[k] = failCounts[1]
        /\ Len(failCounts) > 0
        /\ failCounts[1] > 0

\* The stagnation check of shouldStop (lines 39-47).
stagnant(h, n) ==
    LET recent == Slice(h, 0 - n)
        failCounts == Map(recent, LAMBDA r : r.failed)
    IN  /\ Len(recent) >= n
        /\ \A k \in 1..Len(failCounts) : failCounts[k] = failCounts[1]
        /\ Len(failCounts) > 0
        /\ failCounts[1] > 0

\* Mutant of regressed: the previous record is not consulted.
regressed_BestOnly(h) ==
    LET bestSoFar == SetMin({h[k].failed : k \in 1..Len(h)})
        current == h[Len(h)]
    IN  current.failed > bestSoFar + RegressionMargin

\* The regression check of shouldStop (lines 49-58).
regressed(h) ==
    LET bestSoFar == SetMin({h[k].failed : k \in 1..Len(h)})
        current == h[Len(h)]
        previous == h[Len(h) - 1]
    IN  /\ current.failed > previous.failed
        /\ current.failed > bestSoFar + RegressionMargin

\* Mutant of oscillating: the two alternating states may be the same one.
oscillating_SameState(h) ==
    /\ Len(h) >= OscillationSpan
    /\ LET last4 == Slice(h, 0 - OscillationSpan)
           pattern1 == JSONstringify(last4[1].failingScenarios)
           pattern3 == JSONstringify(last4[3].failingScenarios)
           pattern2 == JSONstringify(last4[2].failingScenarios)
           pattern4 == JSONstringify(last4[4].failingScenarios)
       IN  pattern1 = pattern3 /\ pattern2 = pattern4

\* The oscillation check of shouldStop (lines 60-71).
oscillating(h) ==
    /\ Len(h) >= OscillationSpan
    /\ LET last4 == Slice(h, 0 - OscillationSpan)
           pattern1 == JSONstringify(last4[1].failingScenarios)
           pattern3 == JSONstringify(last4[3].failingScenarios)
           pattern2 == JSONstringify(last4[2].failingScenarios)
           pattern4 == JSONstringify(last4[4].failingScenarios)
       IN  pattern1 = pattern3 /\ pattern2 = pattern4 /\ pattern1 # pattern2

\* Mutant of shouldStop: oscillation is looked for first.
shouldStop_OscillationFirst(h, n) ==
    IF Len(h) < MinRecords THEN Continue
    ELSE IF oscillating(h) THEN Oscillation
    ELSE IF stagnant(h, n) THEN NoProgress
    ELSE IF regressed(h) THEN Regression
    ELSE Continue

\* Mutant of shouldStop: two records are enough.
shouldStop_TwoRecords(h, n) ==
    IF Len(h) < MinRecords - 1 THEN Continue
    ELSE IF stagnant(h, n) THEN NoProgress
    ELSE IF regressed(h) THEN Regression
    ELSE IF oscillating(h) THEN Oscillation
    ELSE Continue

\* shouldStop(): the reason, or "undefined".
shouldStop(h, n) ==
    IF Len(h) < MinRecords THEN Continue
    ELSE IF stagnant(h, n) THEN NoProgress
    ELSE IF regressed(h) THEN Regression
    ELSE IF oscillating(h) THEN Oscillation
    ELSE Continue

\* The elements of an array as a Set.
SetOf(arr) == {arr[k] : k \in 1..Len(arr)}

\* [...new Set(arr)]: the elements in order of first occurrence, each once.
RECURSIVE Spread(_)
Spread(arr) ==
    IF arr = <<>> THEN <<>>
    ELSE LET front == SubSeq(arr, 1, Len(arr) - 1)
             last == arr[Len(arr)]
         IN  IF last \in SetOf(front) THEN Spread(front)
             ELSE Append(Spread(front), last)

StuckWindow == 3

\* Mutant of getStuckScenarios: failing in some recent record is enough.
getStuckScenarios_Some(h) ==
    IF Len(h) < StuckWindow THEN <<>>
    ELSE LET recentFailures == Slice(h, 0 - StuckWindow)
             all == Concat(Map(recentFailures, LAMBDA r : r.failingScenarios))
         IN  Spread(all)

\* getStuckScenarios() (lines 79-90).
getStuckScenarios(h) ==
    IF Len(h) < StuckWindow THEN <<>>
    ELSE LET recentFailures == Slice(h, 0 - StuckWindow)
             scenarioSets ==
               Map(recentFailures, LAMBDA r : SetOf(r.failingScenarios))
             firstSet == Spread(recentFailures[1].failingScenarios)
         IN  Filter(firstSet,
                    LAMBDA sc : \A k \in 1..Len(scenarioSets) :
                                   sc \in scenarioSets[k])

\* ------------------------------------------------------------- SpecCB
\* The windows a breaker is constructed with.
Windows == 1..DefaultWindow

\* The loop's variables when runRalphLoop is not run.
LoopIdle ==
    /\ pc = "idle"
    /\ maxIterations = 0
    /\ iteration = 0
    /\ agentResult = Undefined
    /\ lastSummary = Undefined
    /\ lastFailureReport = Undefined
    /\ result = Undefined
    /\ thrown = "none"
    /\ browser = "none"
    /\ agentCalls = 0
    /\ agentThrew = FALSE
    /\ verifyStarted = {}
    /\ runs = <<>>
    /\ reportsWritten = {}
    /\ serverStops = 0
    /\ prompts = <<>>
    /\ files = <<>>

\* The breaker's variables when no breaker is constructed.
CBIdle ==
    /\ history = <<>>
    /\ maxStagnantIterations = DefaultWindow
    /\ stopReason = "not called"
    /\ stuck = Undefined

\* The variables of runAllScenarios when it is not run step by step.
RunIdle ==
    /\ rpc = "idle"
    /\ scenarios = <<>>
    /\ scenarioIndex = 0
    /\ results = <<>>
    /\ summary = Undefined
    /\ runError = "none"
    /\ epc = "idle"
    /\ actions = 0
    /\ actionIndex = 0
    /\ stepResults = <<>>
    /\ context = "undefined"
    /\ completion = Undefined
    /\ openContexts = 0
    /\ createdContexts = 0
    /\ stages = <<>>
    /\ events = <<>>

\* No command is run.
CmdIdle ==
    /\ command = "none"
    /\ cpc = "idle"
    /\ exitStatus = Undefined

NoProcess == 0

\* ensureDevServer is not called.
SrvIdle ==
    /\ spc = "idle"
    /\ devCommand = FALSE
    /\ serverProcess = NoProcess
    /\ running = {}
    /\ elapsed = 0
    /\ probes = 0
    /\ lastProbe = Undefined
    /\ srvError = "none"
    /\ serverLog = <<>>

\* translateScenario is not called.
TrIdle ==
    /\ tpc = "idle"
    /\ response = <<>>
    /\ modelCalls = 0
    /\ translated = Undefined
    /\ trError = Undefined

\* Everything outside the breaker, the loop and the runner is at rest.
ActIdle ==
    /\ apc = "idle"
    /\ action = Undefined
    /\ baseUrl = <<>>
    /\ page = Undefined
    /\ located = Undefined
    /\ slept = Undefined
    /\ stepOutcome = "none"
    /\ stepError = "none"

ScnIdle ==
    /\ wpc = "idle"
    /\ scnInput = Undefined
    /\ scnText = <<>>
    /\ scnParsed = Undefined

AgtIdle ==
    /\ gpc = "idle"
    /\ timer = "unset"
    /\ procEvents = <<>>
    /\ chunks = 0
    /\ errChunks = 0
    /\ settlement = Undefined
    /\ resolveCalls = <<>>
    /\ signals = 0

TdIdle == closeLog = <<>>

MoreIdle == ActIdle /\ ScnIdle /\ AgtIdle /\ TdIdle

ExtIdle == CmdIdle /\ SrvIdle /\ TrIdle /\ MoreIdle

InitCB ==
    /\ ExtIdle
    /\ history = <<>>
    /\ maxStagnantIterations \in Windows
    /\ stopReason = "not called"
    /\ stuck = Undefined
    /\ LoopIdle
    /\ RunIdle

\* circuitBreaker.record(iteration, summary)
CBRecord ==
    /\ pc = "idle"
    /\ Len(history) < MaxHistory
    /\ \E s \in Summaries :
         history' = record(history, Len(history) + 1, s)
    /\ stopReason' = "not called"
    /\ stuck' = Undefined
    /\ UNCHANGED <<maxStagnantIterations, loopVars, runVars>>
    /\ UNCHANGED extVars

\* circuitBreaker.shouldStop()
\* this.history as shouldStop leaves it: lines 40 and 62 take slices.
AfterShouldStop(h, n) ==
    IF Len(h) < MinRecords THEN h
    ELSE LET rest == AfterSlice(h, -n)
         IN  IF Len(rest) >= OscillationSpan
             THEN AfterSlice(rest, -OscillationSpan)
             ELSE rest

\* this.history as getStuckScenarios leaves it: line 82 takes a slice.
AfterGetStuckScenarios(h) ==
    IF Len(h) < MinRecords THEN h ELSE AfterSlice(h, -MinRecords)

CBShouldStop ==
    /\ pc = "idle"
    /\ stopReason' = shouldStop(history, maxStagnantIterations)
    /\ history' = AfterShouldStop(history, maxStagnantIterations)
    /\ UNCHANGED <<maxStagnantIterations, stuck, loopVars, runVars>>
    /\ UNCHANGED extVars

\* circuitBreaker.getStuckScenarios()
CBGetStuckScenarios ==
    /\ pc = "idle"
    /\ stuck' = Some(getStuckScenarios(history))
    /\ history' = AfterGetStuckScenarios(history)
    /\ UNCHANGED <<maxStagnantIterations, stopReason, loopVars, runVars>>
    /\ UNCHANGED extVars

NextCB == CBRecord \/ CBShouldStop \/ CBGetStuckScenarios

SpecCB == InitCB /\ [][NextCB]_vars

\* ------------------------------------------------------- runRalphLoop
\* formatFailureReport(summary): the passing count, the total and one
\* section per failing result, in result order (part_002 lines 177-215).
formatFailureReport(sm) ==
    [ passed   |-> sm.passed,
      total    |-> sm.total,
      failures |-> Map(Filter(sm.results, LAMBDA r : ~r.passed),
                       LAMBDA r : r.scenario) ]

MaxIterationsReason == "Reached maximum iterations"

\* State after construction: lines 32-46, up to the first loop test.
LoopEntry ==
    /\ history = <<>>
    /\ maxStagnantIterations = DefaultWindow
    /\ stopReason = "not called"
    /\ stuck = Undefined
    /\ pc = "coding"
    /\ maxIterations \in 1..MaxIterations
    /\ iteration = 1
    /\ agentResult = Undefined
    /\ lastSummary = Undefined
    /\ lastFailureReport = Undefined
    /\ result = Undefined
    /\ thrown = "none"
    /\ browser = "none"
    /\ agentCalls = 0
    /\ agentThrew = FALSE
    /\ verifyStarted = {}
    /\ runs = <<>>
    /\ reportsWritten = {}
    /\ serverStops = 0
    /\ prompts = <<>>
    /\ files = <<>>
    /\ RunIdle

\* runRalphLoop called on its own.
Init == LoopEntry /\ ExtIdle

\* Mutant of LoopTest: one iteration too many.
LoopTest_OneMore == iteration <= maxIterations + 1

\* The for loop's test (line 46).
LoopTest == iteration <= maxIterations

\* The files of .litmus (ralph.ts line 33) as <<name, number>>; the prompt
\* file carries no iteration number (coding-agent.ts line 26).
PromptPath == <<"last-prompt.md", 0>>
AgentOutputPath(iter) == <<"agent-output-<n>.md", iter>>
FailuresPath(iter) == <<"failures-<n>.md", iter>>

\* fs.writeFileSync(path, content): the file is created or replaced.
writeFileSync(fs, path, content) ==
    [q \in DOMAIN fs \cup {path} |-> IF q = path THEN content ELSE fs[q]]

\* A string in a condition: undefined and the empty string are falsy.  A
\* failure report always has its heading line (part_002 lines 178-180).
Truthy(report) == IsDefined(report)

\* Mutant of buildCodingPrompt: the failure report is left out.
buildCodingPrompt_NoReport(iter, report) ==
    [kind |-> "prompt", iteration |-> iter, failureReport |-> Undefined]

\* buildCodingPrompt (coding-agent.ts lines 39-88): the iteration number
\* and, from the branch of lines 64-85, the first-iteration task or the
\* failure report when one is given.
buildCodingPrompt(iter, report) ==
    [kind |-> "prompt", iteration |-> iter,
     failureReport |-> IF iter = 1 THEN Undefined
                       ELSE IF Truthy(report) THEN report
                       ELSE Undefined]

\* The raw output the agent of one iteration produced.
AgentOutput(iter) ==
    [kind |-> "output", iteration |-> iter, failureReport |-> Undefined]

\* Mutant of AgentResolved: a failed agent ends the iteration at once.
AgentResolved_SkipOnFailure(success) ==
    /\ agentResult' = Some([success |-> success])
    /\ files' = writeFileSync(
                   writeFileSync(files, PromptPath,
                       buildCodingPrompt(iteration, lastFailureReport)),
                   AgentOutputPath(iteration), AgentOutput(iteration))
    /\ IF success
       THEN /\ verifyStarted' = verifyStarted \cup {iteration}
            /\ pc' = "verifying"
            /\ UNCHANGED iteration
       ELSE /\ iteration' = iteration + 1
            /\ pc' = "coding"
            /\ UNCHANGED verifyStarted
    /\ UNCHANGED <<thrown, agentThrew>>

\* Lines 58-75 once invokeCodingAgent has resolved with `success`: the output
\* is saved, a failed agent is warned about, and runAllScenarios is called.
AgentResolved(success) ==
    /\ agentResult' = Some([success |-> success])
    /\ files' = writeFileSync(
                   writeFileSync(files, PromptPath,
                       buildCodingPrompt(iteration, lastFailureReport)),
                   AgentOutputPath(iteration), AgentOutput(iteration))
    /\ verifyStarted' = verifyStarted \cup {iteration}
    /\ pc' = "verifying"
    /\ UNCHANGED <<iteration, thrown, agentThrew>>

\* Step 1 (lines 46-56): the loop test holds and invokeCodingAgent is
\* awaited.  It resolves with success (exit code 0) or without (non-zero
\* exit, timeout, spawn error), or throws (coding-agent.ts lines 29-34).
InvokeCodingAgent ==
    /\ pc = "coding"
    /\ LoopTest
    /\ agentCalls' = agentCalls + 1
    /\ prompts' = Append(prompts,
                     buildCodingPrompt(iteration, lastFailureReport))
    /\ \/ \E success \in BOOLEAN : AgentResolved(success)
       \/ /\ thrown' = "coding agent"
          /\ agentThrew' = TRUE
          /\ files' = writeFileSync(files, PromptPath,
                         buildCodingPrompt(iteration, lastFailureReport))
          /\ pc' = "finally"
          /\ UNCHANGED <<agentResult, verifyStarted, iteration>>
    /\ UNCHANGED runVars
    /\ UNCHANGED <<cbVars, maxIterations, lastSummary, lastFailureReport,
                   result, browser, runs, reportsWritten, serverStops>>
    /\ UNCHANGED extVars

\* Mutant of OnVerificationError: the crash counts as a run in which every
\* scenario failed.
OnVerificationError_Recorded(h) ==
    record(h, iteration, Summarize(ResultsOf(NumScenarios, 1..NumScenarios)))

\* The catch block of lines 76-82: the history after a verification run
\* that threw.
OnVerificationError(h) == h

\* Step 2 (lines 72-82): runAllScenarios returns a summary, or throws before
\* its scenario loop (browser untouched), or throws from its closeBrowser
\* call (part_002 line 129; browser.close() rejected, the handle stays set).
\* A thrown run is logged and the loop continues with the next iteration.
RunAllScenarios ==
    /\ pc = "verifying"
    /\ \/ \E s \in Summaries :
            /\ lastSummary' = Some(s)
            /\ browser' = "none"
            /\ runs' = Append(runs, IF s.failed = 0 THEN "passed" ELSE "failed")
            /\ pc' = "deciding"
            /\ UNCHANGED <<history, iteration>>
       \/ \E b \in {browser, "open"} :
            /\ browser' = b
            /\ runs' = Append(runs, "threw")
            /\ history' = OnVerificationError(history)
            /\ iteration' = iteration + 1
            /\ pc' = "coding"
            /\ UNCHANGED lastSummary
    /\ UNCHANGED runVars
    /\ UNCHANGED <<maxStagnantIterations, stopReason, stuck, maxIterations,
                   agentResult, lastFailureReport, result, thrown, agentCalls,
                   agentThrew,
                   verifyStarted, reportsWritten, serverStops, prompts,
                   files>>
    /\ UNCHANGED extVars

\* Mutant of AllPassing: some scenario passes.
AllPassing_SomePass(s) == s.passed > 0

\* The test of line 86.
AllPassing(s) == s.failed = 0

\* Steps 3-5 (lines 84-133) on the summary just obtained.
Decide ==
    /\ pc = "deciding"
    /\ LET s == lastSummary[1]
           h == record(history, iteration, s)
           reason == shouldStop(h, maxStagnantIterations)
       IN  IF AllPassing(s)
           THEN /\ result' = Some([ success       |-> TRUE,
                                    iterations    |-> iteration,
                                    finalSummary  |-> lastSummary,
                                    stoppedReason |-> Undefined ])
                /\ pc' = "finally"
                /\ UNCHANGED <<cbVars, lastFailureReport, reportsWritten,
                               iteration, files>>
           ELSE /\ history' = h
                /\ stopReason' = reason
                /\ UNCHANGED maxStagnantIterations
                /\ IF reason # Continue
                   THEN /\ result' = Some([ success       |-> FALSE,
                                            iterations    |-> iteration,
                                            finalSummary  |-> lastSummary,
                                            stoppedReason |-> Some(reason) ])
                        /\ stuck' = Some(getStuckScenarios(h))
                        /\ pc' = "finally"
                        /\ UNCHANGED <<lastFailureReport, reportsWritten,
                                       iteration, files>>
                   ELSE /\ lastFailureReport' = Some(formatFailureReport(s))
                        /\ UNCHANGED stuck
                        /\ reportsWritten' = reportsWritten \cup {iteration}
                        /\ files' = writeFileSync(files,
                                         FailuresPath(iteration),
                                         formatFailureReport(s))
                        /\ iteration' = iteration + 1
                        /\ pc' = "coding"
                        /\ UNCHANGED result
    /\ UNCHANGED runVars
    /\ UNCHANGED <<maxIterations, agentResult, lastSummary, thrown, browser,
                   agentCalls, agentThrew, verifyStarted, runs, serverStops,
                   prompts>>
    /\ UNCHANGED extVars

\* Lines 135-146: the loop test fails.
MaxIterationsReached ==
    /\ pc = "coding"
    /\ ~LoopTest
    /\ result' = Some([ success       |-> FALSE,
                        iterations    |-> maxIterations,
                        finalSummary  |-> lastSummary,
                        stoppedReason |-> Some(MaxIterationsReason) ])
    /\ pc' = "finally"
    /\ UNCHANGED runVars
    /\ UNCHANGED <<cbVars, maxIterations, iteration, agentResult, lastSummary,
                   lastFailureReport, thrown, browser, agentCalls, agentThrew,
                   verifyStarted, runs, reportsWritten, serverStops,
                   prompts, files>>
    /\ UNCHANGED extVars

\* The finally block (lines 147-150): closeBrowser, which does nothing when
\* no browser is held and whose browser.close() may reject, then
\* stopDevServer.  A rejection replaces the pending return or exception.
Finally ==
    /\ pc = "finally"
    /\ \/ /\ browser' = "none"
          /\ serverStops' = serverStops + 1
          /\ pc' = IF thrown = "none" THEN "returned" ELSE "threw"
          /\ UNCHANGED <<result, thrown>>
       \/ /\ browser = "open"
          /\ thrown' = "closeBrowser"
          /\ result' = Undefined
          /\ pc' = "threw"
          /\ UNCHANGED <<browser, serverStops>>
    /\ UNCHANGED runVars
    /\ UNCHANGED <<cbVars, maxIterations, iteration, agentResult, lastSummary,
                   lastFailureReport, agentCalls, agentThrew, verifyStarted,
                   runs, reportsWritten, prompts, files>>
    /\ UNCHANGED extVars

Next ==
    \/ InvokeCodingAgent
    \/ RunAllScenarios
    \/ Decide
    \/ MaxIterationsReached
    \/ Finally

Spec == Init /\ [][Next]_vars

\* Every awaited call returns or throws and the loop's own steps are taken:
\* no enabled step is postponed forever.
FairSpec == Spec /\ WF_vars(Next)

\* The breaker on its own together with the loop: a behaviour is one of
\* SpecCB or one of Spec.
SpecLoopAndCB == (Init \/ InitCB) /\ [][Next \/ NextCB]_vars

\* ---------------------------------------------------- executeScenario
\* Messages of the errors thrown.
NoScenariosError == "No scenarios found"
NoMatchError == "No scenarios match filter"
SetupError == "setup command failed"
ServerError == "server not available"
CloseError == "browser.close rejected"
TranslationError == "Failed to translate scenario"
LaunchError == "chromium.launch rejected"
NewContextError == "newContext rejected"
NewPageError == "newPage rejected"
NullActionError == "TypeError: cannot read description of null"
MkdirError == "mkdirSync threw"
ActionError == "executeAction threw"

\* A StepResult (lines 158-162, 166-179).
\* Mutant of StepResult: the step carries the loop's i, not i + 1.
StepResult_ZeroBased(index, ok, shot) ==
    [step |-> index - 1, passed |-> ok, screenshotPath |-> shot]

StepResult(index, ok, shot) ==
    [step |-> index, passed |-> ok, screenshotPath |-> shot]

\* The failing VerificationResult of lines 187-199.
FailedResult(scenario, srs, index, shot) ==
    [ scenario       |-> scenario,
      passed         |-> FALSE,
      stepResults    |-> srs,
      failedStep     |-> Some(index),
      actual         |-> Some(ActionError),
      screenshotPath |-> shot ]

\* The passing VerificationResult of lines 205-213.
PassedResult(scenario, srs) ==
    [ scenario       |-> scenario,
      passed         |-> TRUE,
      stepResults    |-> srs,
      failedStep     |-> Undefined,
      actual         |-> Undefined,
      screenshotPath |-> FALSE ]

\* The VerificationResult the orchestrator builds from a caught error
\* (part_002 lines 114-122).
ErrorResult(scenario, message) ==
    [ scenario       |-> scenario,
      passed         |-> FALSE,
      stepResults    |-> <<>>,
      failedStep     |-> Undefined,
      actual         |-> Some(message),
      screenshotPath |-> FALSE ]

Returns(value) == Some([threw |-> FALSE, message |-> "none", value |-> Some(value)])
Throws(message) == Some([threw |-> TRUE, message |-> message, value |-> Undefined])

CurrentScenario == scenarios[scenarioIndex]

\* What has happened to the scenario being run, with one more fact.
Noted(field, value) ==
    [events EXCEPT ![Len(events)] = [@ EXCEPT ![field] = value]]

Attempted(index, outcome) ==
    [events EXCEPT ![Len(events)].attempts =
        Append(@, [index |-> index, outcome |-> outcome])]

\* Lines 139-143: ensureBrowser (a launch when no browser is held), then
\* newContext and newPage; each may reject, which leaves the try block.
ExecSetup ==
    /\ epc = "setup"
    /\ \/ /\ browser = "none"
          /\ events' = Noted("setup", "launch rejected")
          /\ completion' = Throws(LaunchError)
          /\ epc' = "finally"
          /\ UNCHANGED <<browser, context, actionIndex, openContexts,
                         createdContexts>>
       \/ /\ browser' = "open"
          /\ \/ /\ events' = Noted("setup", "newContext rejected")
                /\ completion' = Throws(NewContextError)
                /\ epc' = "finally"
                /\ UNCHANGED <<context, actionIndex, openContexts,
                               createdContexts>>
             \/ /\ context' = "open"
                /\ openContexts' = openContexts + 1
                /\ createdContexts' = createdContexts + 1
                /\ \/ /\ events' = Noted("setup", "newPage rejected")
                      /\ completion' = Throws(NewPageError)
                      /\ epc' = "finally"
                      /\ UNCHANGED actionIndex
                   \/ /\ events' = Noted("setup", "ok")
                      /\ actionIndex' = 1
                      /\ epc' = "loop"
                      /\ UNCHANGED completion
    /\ UNCHANGED <<cbVars, rpc, scenarios, scenarioIndex, results, summary,
                   runError, actions, stepResults>>
    /\ UNCHANGED <<pc, maxIterations, iteration, agentResult, lastSummary,
                   lastFailureReport, result, thrown, agentCalls, agentThrew,
                   verifyStarted, runs, reportsWritten, serverStops,
                   prompts, files>>
    /\ UNCHANGED extVars
    /\ UNCHANGED stages

\* Mutant of OnActionFailed: the loop goes on after a failed action.
OnActionFailed_Continue(sr) ==
    /\ stepResults' = Append(stepResults, sr)
    /\ actionIndex' = actionIndex + 1
    /\ UNCHANGED <<completion, epc>>

\* Lines 184-199: the failed step is pushed and the result returned.
OnActionFailed(sr) ==
    /\ stepResults' = Append(stepResults, sr)
    /\ completion' = Returns(FailedResult(CurrentScenario, stepResults',
                                          actionIndex, sr.screenshotPath))
    /\ epc' = "finally"
    /\ UNCHANGED actionIndex

\* One pass of the action loop (lines 156-203).  Reading the description of
\* a null action throws; executeAction passes or throws; after a throw the
\* screenshot directory is made (which may throw) and the screenshot is
\* taken (a failure is swallowed).
ExecuteAction ==
    /\ epc = "loop"
    /\ actionIndex <= actions
    /\ \/ /\ events' = Attempted(actionIndex, "null")
          /\ completion' = Throws(NullActionError)
          /\ epc' = "finally"
          /\ UNCHANGED <<stepResults, actionIndex>>
       \/ /\ events' = Attempted(actionIndex, "passed")
          /\ stepResults' =
               Append(stepResults, StepResult(actionIndex, TRUE, FALSE))
          /\ actionIndex' = actionIndex + 1
          /\ UNCHANGED <<completion, epc>>
       \/ /\ events' = [Attempted(actionIndex, "failed")
                          EXCEPT ![Len(events)].evidence = "mkdir threw"]
          /\ completion' = Throws(MkdirError)
          /\ epc' = "finally"
          /\ UNCHANGED <<stepResults, actionIndex>>
       \/ \E shot \in BOOLEAN :
            /\ events' = [Attempted(actionIndex, "failed")
                            EXCEPT ![Len(events)].evidence =
                              IF shot THEN "saved" ELSE "screenshot failed"]
            /\ OnActionFailed(StepResult(actionIndex, FALSE, shot))
    /\ UNCHANGED <<cbVars, loopVars, rpc, scenarios, scenarioIndex, results,
                   summary, runError, actions, context>>
    /\ UNCHANGED extVars
    /\ UNCHANGED <<openContexts, createdContexts>>
    /\ UNCHANGED stages

\* Lines 205-213: every action passed.
ExecLoopEnd ==
    /\ epc = "loop"
    /\ actionIndex > actions
    /\ completion' = Returns(PassedResult(CurrentScenario, stepResults))
    /\ epc' = "finally"
    /\ UNCHANGED <<cbVars, loopVars, rpc, scenarios, scenarioIndex, results,
                   summary, runError, actions, actionIndex, stepResults,
                   context, events>>
    /\ UNCHANGED extVars
    /\ UNCHANGED <<openContexts, createdContexts>>
    /\ UNCHANGED stages

\* Mutant of ShouldClose: the context is closed only on a return.
ShouldClose_OnReturnOnly(ctx, comp) == ctx # "undefined" /\ ~comp[1].threw

\* The test of line 215: a context was created.
ShouldClose(ctx, comp) == ctx # "undefined"

\* Lines 214-218: the context, if one was created, is closed; a rejection
\* of close is swallowed.  Then the pending return or throw takes place.
ExecFinally ==
    /\ epc = "finally"
    /\ IF ShouldClose(context, completion)
       THEN context' = "closed" /\ openContexts' = openContexts - 1
       ELSE UNCHANGED <<context, openContexts>>
    /\ UNCHANGED createdContexts
    /\ epc' = IF completion[1].threw THEN "threw" ELSE "returned"
    /\ UNCHANGED <<cbVars, loopVars, rpc, scenarios, scenarioIndex, results,
                   summary, runError, actions, actionIndex, stepResults,
                   completion, events>>
    /\ UNCHANGED extVars
    /\ UNCHANGED stages

\* ---------------------------------------------------- runAllScenarios
\* Lines 43-49: the scenario files are loaded, sorted by path.
\* The characters of the file paths, in ascending order of their UTF-16 code
\* units.
CodeUnits == <<".", "/", "a", "b", "d", "m">>

CodeUnit(c) == CHOOSE k \in 1..Len(CodeUnits) : CodeUnits[k] = c

\* s < t on strings: at the first index where they differ s has ended or
\* holds the smaller code unit.
Before(s, t) ==
    \E i \in 1..(Len(s) + 1) :
        /\ i <= Len(t)
        /\ SubSeq(s, 1, i - 1) = SubSeq(t, 1, i - 1)
        /\ i <= Len(s) => CodeUnit(s[i]) < CodeUnit(t[i])

\* Mutant of sort: the array is left in the order of the walk.
sort_Unsorted(arr) == arr

\* Array.prototype.sort() without a comparator: ascending by code units,
\* equal elements in their earlier order.
sort(arr) ==
    [k \in 1..Len(arr) |->
        arr[CHOOSE i \in 1..Len(arr) :
              Cardinality({j \in 1..Len(arr) :
                             \/ Before(arr[j], arr[i])
                             \/ arr[j] = arr[i] /\ j < i}) = k - 1]]

\* The markdown files a scenarios directory can hold, relative to it.
ScenarioFiles == { <<"a", ".", "m", "d">>, <<"a", "/", "b", ".", "m", "d">>, <<"b", ".", "m", "d">> }

\* The paths pushed by the walk of lines 35-44 before the sort of line 46:
\* each file once, in the order readdirSync lists the entries (any order).
Walks ==
    UNION {{w \in [1..n -> ScenarioFiles] :
              \A i, j \in 1..n : w[i] = w[j] => i = j}
             : n \in 0..MaxRunScenarios}

\* scenarios/index.ts, lines 25-47, on a directory whose walk gives `found`.
findMarkdownFiles(found) == sort(found)

LoadScenarios ==
    /\ rpc = "load"
    /\ stages' = Append(stages, "load")
    /\ \E found \in Walks :
         /\ scenarios' = findMarkdownFiles(found)
         /\ IF found = <<>>
            THEN rpc' = "threw" /\ runError' = NoScenariosError
            ELSE rpc' = "filter" /\ UNCHANGED runError
    /\ UNCHANGED <<cbVars, loopVars, scenarioIndex, results, summary, epc,
                   actions, actionIndex, stepResults, context, completion,
                   events>>
    /\ UNCHANGED extVars
    /\ UNCHANGED <<openContexts, createdContexts>>

\* Lines 51-60: the filter, if one is given, keeps the scenarios it matches.
ApplyFilter ==
    /\ rpc = "filter"
    /\ \/ /\ rpc' = "setup"
          /\ UNCHANGED <<scenarios, runError, stages>>
       \/ \E keep \in SUBSET {scenarios[k] : k \in 1..Len(scenarios)} :
            /\ stages' = Append(stages, "filter")
            /\ scenarios' = Filter(scenarios, LAMBDA sc : sc \in keep)
            /\ IF keep = {}
               THEN rpc' = "threw" /\ runError' = NoMatchError
               ELSE rpc' = "setup" /\ UNCHANGED runError
    /\ UNCHANGED <<cbVars, loopVars, scenarioIndex, results, summary, epc,
                   actions, actionIndex, stepResults, context, completion,
                   events>>
    /\ UNCHANGED extVars
    /\ UNCHANGED <<openContexts, createdContexts>>

\* Mutant of AfterSetupError: the run goes on to the server check.
AfterSetupError_Continue == "server"

\* Line 72: the error of the setup command is thrown again.
AfterSetupError == "threw"

\* Lines 64-74: the setup command, if one is configured.
RunSetup ==
    /\ rpc = "setup"
    /\ \/ /\ rpc' = "server"
          /\ UNCHANGED <<runError, stages>>
       \/ /\ stages' = Append(stages, "setup")
          /\ \/ rpc' = "server" /\ UNCHANGED runError
             \/ rpc' = AfterSetupError /\ runError' = SetupError
    /\ UNCHANGED <<cbVars, loopVars, scenarios, scenarioIndex, results,
                   summary, epc, actions, actionIndex, stepResults, context,
                   completion, events>>
    /\ UNCHANGED extVars
    /\ UNCHANGED <<openContexts, createdContexts>>

\* Lines 76-90: ensureDevServer, then the scenario loop is entered.
EnsureDevServer ==
    /\ rpc = "server"
    /\ stages' = Append(stages, "server")
    /\ \/ /\ rpc' = "scenarios"
          /\ scenarioIndex' = 1
          /\ UNCHANGED runError
       \/ /\ rpc' = "threw"
          /\ runError' = ServerError
          /\ UNCHANGED scenarioIndex
    /\ UNCHANGED <<cbVars, loopVars, scenarios, results, summary, epc,
                   actions, actionIndex, stepResults, context, completion,
                   events>>
    /\ UNCHANGED extVars
    /\ UNCHANGED <<openContexts, createdContexts>>

\* Mutant of OnScenarioError: the error is logged and no result is kept.
OnScenarioError_Dropped(rs, scenario, message) == rs

\* The catch block of lines 113-125: a failed result takes the place of
\* the scenario's result.
OnScenarioError(rs, scenario, message) ==
    Append(rs, ErrorResult(scenario, message))

NoEvents ==
    [translated |-> "ok", setup |-> "none", attempts |-> <<>>,
     evidence |-> "none"]

\* Line 98: translateScenario returns an action list or throws; on a list,
\* executeScenario is entered (lines 132-136).
TranslateScenario ==
    /\ rpc = "scenarios"
    /\ scenarioIndex <= Len(scenarios)
    /\ stages' = Append(stages, "scenario")
    /\ \/ /\ events' = Append(events, [NoEvents EXCEPT !.translated = "threw"])
          /\ results' = OnScenarioError(results, CurrentScenario,
                                        TranslationError)
          /\ scenarioIndex' = scenarioIndex + 1
          /\ UNCHANGED <<rpc, epc, actions, stepResults, context, completion>>
       \/ \E n \in 0..MaxActions :
            /\ events' = Append(events, NoEvents)
            /\ actions' = n
            /\ stepResults' = <<>>
            /\ context' = "undefined"
            /\ completion' = Undefined
            /\ epc' = "setup"
            /\ rpc' = "executing"
            /\ UNCHANGED <<results, scenarioIndex>>
    /\ UNCHANGED <<cbVars, loopVars, scenarios, summary, runError,
                   actionIndex>>
    /\ UNCHANGED extVars
    /\ UNCHANGED <<openContexts, createdContexts>>

\* Lines 101-125 once executeScenario has returned or thrown.
FinishScenario ==
    /\ rpc = "executing"
    /\ epc \in {"returned", "threw"}
    /\ results' =
         IF completion[1].threw
         THEN OnScenarioError(results, CurrentScenario, completion[1].message)
         ELSE Append(results, completion[1].value[1])
    /\ scenarioIndex' = scenarioIndex + 1
    /\ rpc' = "scenarios"
    /\ epc' = "idle"
    /\ UNCHANGED <<cbVars, loopVars, scenarios, summary, runError, actions,
                   actionIndex, stepResults, context, completion, events>>
    /\ UNCHANGED extVars
    /\ UNCHANGED <<openContexts, createdContexts>>
    /\ UNCHANGED stages

\* Lines 128-139: closeBrowser, whose browser.close() may reject, then the
\* summary is built and returned.
CloseAndSummarize ==
    /\ rpc = "scenarios"
    /\ scenarioIndex > Len(scenarios)
    /\ \/ /\ browser' = "none"
          /\ stages' = stages \o <<"close", "aggregate">>
          /\ summary' = Some(Summarize(results))
          /\ rpc' = "done"
          /\ UNCHANGED runError
       \/ /\ browser = "open"
          /\ stages' = Append(stages, "close")
          /\ runError' = CloseError
          /\ rpc' = "threw"
          /\ UNCHANGED <<browser, summary>>
    /\ UNCHANGED <<cbVars, scenarios, scenarioIndex, results, epc, actions,
                   actionIndex, stepResults, context, completion, events>>
    /\ UNCHANGED <<pc, maxIterations, iteration, agentResult, lastSummary,
                   lastFailureReport, result, thrown, agentCalls, agentThrew,
                   verifyStarted, runs, reportsWritten, serverStops,
                   prompts, files>>
    /\ UNCHANGED extVars
    /\ UNCHANGED <<openContexts, createdContexts>>

\* State on entry to runAllScenarios: no browser, nothing loaded.
RunEntry ==
    /\ CBIdle
    /\ LoopIdle
    /\ rpc = "load"
    /\ scenarios = <<>>
    /\ scenarioIndex = 0
    /\ results = <<>>
    /\ summary = Undefined
    /\ runError = "none"
    /\ epc = "idle"
    /\ actions = 0
    /\ actionIndex = 0
    /\ stepResults = <<>>
    /\ context = "undefined"
    /\ completion = Undefined
    /\ openContexts = 0
    /\ createdContexts = 0
    /\ stages = <<>>
    /\ events = <<>>

\* runAllScenarios called on its own.
InitRun == RunEntry /\ ExtIdle

NextRun ==
    \/ LoadScenarios
    \/ ApplyFilter
    \/ RunSetup
    \/ EnsureDevServer
    \/ TranslateScenario
    \/ ExecSetup
    \/ ExecuteAction
    \/ ExecLoopEnd
    \/ ExecFinally
    \/ FinishScenario
    \/ CloseAndSummarize

SpecRun == InitRun /\ [][NextRun]_vars

\* ------------------------------------------------------ ensureDevServer
Port == 3000
ReadyBelow == 500
ProbeTimeoutSeconds == 5
SleepSeconds == 2
MaxWaitSeconds == 90

\* The child spawned before this call, and the one this call spawns.
EarlierChild == 1
SpawnedChild == 2

\* What a fetch ends with: a response with a status, or a failure (no
\* connection, or the 5 second timeout).
Statuses == {200, 404, 499, 500, 503}
Response(status) == [responded |-> TRUE, status |-> status]
FetchFailed == [responded |-> FALSE, status |-> 0]
FetchOutcomes == {Response(st) : st \in Statuses} \cup {FetchFailed}

\* Mutant of isServerReady: only statuses below 400 count as ready.
isServerReady_Below400(outcome) ==
    outcome.responded /\ outcome.status < 400

\* isServerReady (lines 8-19) on the outcome of the fetch.
isServerReady(outcome) ==
    outcome.responded /\ outcome.status < ReadyBelow

NoCommandError == "No server running and no devCommand configured"
StartTimeoutError == "Dev server failed to start within 90 seconds"

Signal(child) == [op |-> "SIGTERM", target |-> child]
KillPort == [op |-> "kill port", target |-> Port]
Spawn(child) == [op |-> "spawn", target |-> child]

\* stopDevServer (lines 64-75): the child held, if any, is sent SIGTERM and
\* the handle cleared; then whatever listens on port 3000 is killed.
stopDevServer(handle) ==
    (IF handle # NoProcess THEN <<Signal(handle)>> ELSE <<>>) \o <<KillPort>>

\* Mutant of MissingCommand: the start is tried without a command.
MissingCommand_Never(cmd) == FALSE

\* The test of line 114.
MissingCommand(cmd) == ~cmd

\* Lines 109-118: the first probe; ready returns, no command throws.
FirstProbe ==
    /\ spc = "probe"
    /\ probes' = probes + 1
    /\ \E outcome \in FetchOutcomes :
         /\ lastProbe' = Some(outcome)
         /\ IF isServerReady(outcome)
            THEN spc' = "returned" /\ UNCHANGED srvError
            ELSE IF MissingCommand(devCommand)
            THEN spc' = "threw" /\ srvError' = NoCommandError
            ELSE spc' = "stop" /\ UNCHANGED srvError
    /\ UNCHANGED <<devCommand, serverProcess, running, elapsed, serverLog>>
    /\ UNCHANGED <<cbVars, loopVars, runVars, cmdVars, trVars, moreVars>>

\* Lines 120-122: stopDevServer, then a sleep of 2 seconds.
StopBeforeStart ==
    /\ spc = "stop"
    /\ serverLog' = serverLog \o stopDevServer(serverProcess)
    /\ serverProcess' = NoProcess
    /\ spc' = "start"
    /\ UNCHANGED <<devCommand, running, elapsed, probes, lastProbe, srvError>>
    /\ UNCHANGED <<cbVars, loopVars, runVars, cmdVars, trVars, moreVars>>

\* startDevServer (lines 39-59), then waitForServer takes its start time.
StartDevServer ==
    /\ spc = "start"
    /\ serverLog' = serverLog \o <<KillPort, Spawn(SpawnedChild)>>
    /\ serverProcess' = SpawnedChild
    /\ running' = running \cup {SpawnedChild}
    /\ elapsed' = 0
    /\ spc' = "poll"
    /\ UNCHANGED <<devCommand, probes, lastProbe, srvError>>
    /\ UNCHANGED <<cbVars, loopVars, runVars, cmdVars, trVars, moreVars>>

\* One pass of waitForServer's loop (lines 29-32): a probe, which takes up
\* to its timeout, and after a failed one a sleep of 2 seconds.
Poll ==
    /\ spc = "poll"
    /\ elapsed < MaxWaitSeconds
    /\ probes' = probes + 1
    /\ \E outcome \in FetchOutcomes :
         /\ lastProbe' = Some(outcome)
         /\ IF isServerReady(outcome)
            THEN spc' = "returned" /\ UNCHANGED elapsed
            ELSE /\ \E took \in {0, ProbeTimeoutSeconds} :
                      elapsed' = elapsed + took + SleepSeconds
                 /\ UNCHANGED spc
    /\ UNCHANGED <<devCommand, serverProcess, running, srvError, serverLog>>
    /\ UNCHANGED <<cbVars, loopVars, runVars, cmdVars, trVars, moreVars>>

\* Lines 33 and 125-131: the wait is over; stopDevServer and throw.
StartTimedOut ==
    /\ spc = "poll"
    /\ ~(elapsed < MaxWaitSeconds)
    /\ serverLog' = serverLog \o stopDevServer(serverProcess)
    /\ serverProcess' = NoProcess
    /\ srvError' = StartTimeoutError
    /\ spc' = "threw"
    /\ UNCHANGED <<devCommand, running, elapsed, probes, lastProbe>>
    /\ UNCHANGED <<cbVars, loopVars, runVars, cmdVars, trVars, moreVars>>

\* A child process ends while ensureDevServer is waiting; its "exit"
\* handler (lines 54-56) clears the handle, whichever child it holds.
ChildExit ==
    /\ spc \in {"probe", "start", "poll"}
    /\ \E child \in running : running' = running \ {child}
    /\ serverProcess' = NoProcess
    /\ UNCHANGED <<spc, devCommand, elapsed, probes, lastProbe, srvError,
                   serverLog>>
    /\ UNCHANGED <<cbVars, loopVars, runVars, cmdVars, trVars, moreVars>>

\* ensureDevServer is called; a child of an earlier call may be held, or
\* may have been signalled and not have ended yet.
InitServer ==
    /\ CBIdle
    /\ LoopIdle
    /\ RunIdle
    /\ CmdIdle
    /\ TrIdle
    /\ MoreIdle
    /\ spc = "probe"
    /\ devCommand \in BOOLEAN
    /\ running \in {{}, {EarlierChild}}
    /\ serverProcess \in {NoProcess} \cup running
    /\ elapsed = 0
    /\ probes = 0
    /\ lastProbe = Undefined
    /\ srvError = "none"
    /\ serverLog = <<>>

NextServer ==
    \/ FirstProbe
    \/ StopBeforeStart
    \/ StartDevServer
    \/ Poll
    \/ StartTimedOut
    \/ ChildExit

SpecServer == InitServer /\ [][NextServer]_vars

\* Every awaited fetch and sleep ends.
FairSpecServer == SpecServer /\ WF_vars(NextServer)

\* ---------------------------------------------------- translateScenario
\* Texts are sequences of characters.
MaxElements == 2
TruncateAt == 300

\* The grave accent, U+0060, named because a string here cannot hold it.
Backtick == "GRAVE"
Fence == <<Backtick, Backtick, Backtick>>
JsonTag == <<"j", "s", "o", "n">>
Whitespace == {" ", "\n"}
Digits == {"1", "2"}
Punctuation == {"[", "]", ",", "{", "}"}

Least(S) == CHOOSE k \in S : \A j \in S : k <= j
Greatest(S) == CHOOSE k \in S : \A j \in S : j <= k

\* String.prototype.trim.
trim(s) ==
    LET solid == {k \in 1..Len(s) : s[k] \notin Whitespace}
    IN  IF solid = {} THEN <<>>
        ELSE SubSeq(s, Least(solid), Greatest(solid))

StartsWith(s, i, pattern) ==
    /\ i + Len(pattern) - 1 <= Len(s)
    /\ SubSeq(s, i, i + Len(pattern) - 1) = pattern

FenceAt(s, i) == StartsWith(s, i, Fence)

\* s.match(/FENCE(?:json)?\s*\n?([\s\S]*?)\n?FENCE/), FENCE being three
\* grave accents: the first group of the leftmost match, trimmed, or
\* Undefined when nothing matches.  The match
\* starts at the first fence that has a later fence, skips a "json" tag and
\* ends at the next fence; the pattern is not anchored.
FencedGroup(s) ==
    LET opens == {i \in 1..Len(s) :
                    FenceAt(s, i) /\ \E j \in (i + 3)..Len(s) : FenceAt(s, j)}
    IN  IF opens = {} THEN Undefined
        ELSE LET open == Least(opens)
                 close == Least({j \in (open + 3)..Len(s) : FenceAt(s, j)})
                 from == IF StartsWith(s, open + 3, JsonTag)
                         THEN open + 7 ELSE open + 3
             IN  Some(trim(SubSeq(s, from, close - 1)))

Lexeme(kind, text) == [kind |-> kind, text |-> text]
Invalid == Lexeme("invalid", <<>>)

\* The lexemes of a JSON text over the characters used here: punctuation,
\* numbers (runs of digits) and strings without escapes; a character that
\* cannot start a lexeme, an unterminated string or a line break inside a
\* string ends the list with Invalid.
RECURSIVE Lex(_)
Lex(s) ==
    IF s = <<>> THEN <<>>
    ELSE IF Head(s) \in Whitespace THEN Lex(Tail(s))
    ELSE IF Head(s) \in Punctuation
    THEN <<Lexeme(Head(s), <<>>)>> \o Lex(Tail(s))
    ELSE IF Head(s) \in Digits
    THEN LET n == CHOOSE k \in 1..Len(s) :
                    /\ \A j \in 1..k : s[j] \in Digits
                    /\ k = Len(s) \/ s[k + 1] \notin Digits
         IN  <<Lexeme("number", SubSeq(s, 1, n))>>
               \o Lex(SubSeq(s, n + 1, Len(s)))
    ELSE IF Head(s) = "\""
    THEN LET quotes == {k \in 2..Len(s) : s[k] = "\""}
         IN  IF quotes = {} THEN <<Invalid>>
             ELSE LET k == Least(quotes)
                  IN  IF \E j \in 2..(k - 1) : s[j] = "\n"
                      THEN <<Invalid>>
                      ELSE <<Lexeme("string", SubSeq(s, 2, k - 1))>>
                             \o Lex(SubSeq(s, k + 1, Len(s)))
    ELSE <<Invalid>>

SyntaxError == [valid |-> FALSE, isArray |-> FALSE, elements |-> <<>>]
NotArray == [valid |-> TRUE, isArray |-> FALSE, elements |-> <<>>]

\* JSON.parse followed by Array.isArray, for texts whose values are
\* numbers, strings, the empty object and arrays of numbers and strings.
JSONparse(s) ==
    LET lx == Lex(s)
        n == Len(lx)
        IsValue(l) == l.kind \in {"number", "string"}
    IN  IF n = 0 \/ \E k \in 1..n : lx[k] = Invalid THEN SyntaxError
        ELSE IF n = 1 /\ IsValue(lx[1]) THEN NotArray
        ELSE IF n = 2 /\ lx[1].kind = "{" /\ lx[2].kind = "}" THEN NotArray
        ELSE IF /\ n >= 2
                /\ lx[1].kind = "["
                /\ lx[n].kind = "]"
                /\ n = 2 \/ n % 2 = 1
                /\ \A k \in 2..(n - 1) :
                     IF k % 2 = 0 THEN IsValue(lx[k]) ELSE lx[k].kind = ","
        THEN [valid |-> TRUE, isArray |-> TRUE,
              elements |-> [k \in 1..((n - 1) \div 2) |-> lx[2 * k]]]
        ELSE SyntaxError

ApiError == "chat() rejected"
FailedToTranslate == "Failed to translate scenario"

\* Lines 79-94: the text handed to JSON.parse.
jsonStr(text) ==
    LET jsonMatch == FencedGroup(trim(text))
    IN  IF IsDefined(jsonMatch) THEN jsonMatch[1] ELSE trim(text)

\* The texts of the elements an array is made of: two numbers, a string,
\* and a string that holds a fenced snippet.
ElementTexts ==
    { <<"1">>, <<"2">>, <<"\"", "a", "\"">>,
      <<"\"">> \o Fence \o <<"a">> \o Fence \o <<"\"">> }

RECURSIVE Join(_)
Join(texts) ==
    IF texts = <<>> THEN <<>>
    ELSE IF Len(texts) = 1 THEN texts[1]
    ELSE texts[1] \o <<",">> \o Join(Tail(texts))

ArrayTexts ==
    UNION {{<<"[">> \o Join(els) \o <<"]">> : els \in [1..n -> ElementTexts]}
             : n \in 0..MaxElements}

\* What the model may answer with, before any wrapping: arrays, values that
\* are not arrays, and texts that are not JSON.
Bodies ==
    ArrayTexts \cup
    { <<"1">>, <<"{", "}">>, <<"\"", "a", "\"">> } \cup
    { <<>>, <<"a">>, <<"[", "1">>, <<"[", "1", ",", "]">>,
      <<"[", "1", " ", "2", "]">> }

Wrappings(b) ==
    { b,
      <<"\n">> \o b \o <<"\n">>,
      Fence \o b \o Fence,
      Fence \o <<"\n">> \o b \o <<"\n">> \o Fence,
      Fence \o JsonTag \o <<"\n">> \o b \o <<"\n">> \o Fence,
      <<"a", " ">> \o Fence \o b \o Fence,
      Fence \o b \o Fence \o <<" ", "a">>,
      Fence \o JsonTag \o <<"\n">> \o b }

Responses ==
    UNION {Wrappings(b) : b \in Bodies}
      \cup {[k \in 1..(TruncateAt + 2) |-> "a"]}

\* Lines 70-77: the one call of chat(), which resolves with the text of the
\* answer or rejects.
CallModel ==
    /\ tpc = "call"
    /\ modelCalls' = modelCalls + 1
    /\ \/ /\ \E text \in Responses : response' = text
          /\ tpc' = "parse"
          /\ UNCHANGED trError
       \/ /\ trError' = Some([message |-> ApiError, response |-> <<>>])
          /\ tpc' = "threw"
          /\ UNCHANGED response
    /\ UNCHANGED translated
    /\ UNCHANGED <<cbVars, loopVars, runVars, cmdVars, srvVars, moreVars>>

\* Lines 79-94: the fence is stripped, the text parsed, and the array
\* returned or the error thrown with the start of the raw response.
ParseResponse ==
    /\ tpc = "parse"
    /\ LET parsed == JSONparse(jsonStr(response))
       IN  IF parsed.valid /\ parsed.isArray
           THEN /\ translated' = Some(parsed.elements)
                /\ tpc' = "returned"
                /\ UNCHANGED trError
           ELSE /\ trError' = Some([message |-> FailedToTranslate,
                                    response |-> SubSeq(response, 1,
                                        Min(TruncateAt, Len(response)))])
                /\ tpc' = "threw"
                /\ UNCHANGED translated
    /\ UNCHANGED <<response, modelCalls>>
    /\ UNCHANGED <<cbVars, loopVars, runVars, cmdVars, srvVars, moreVars>>

InitTranslate ==
    /\ CBIdle
    /\ LoopIdle
    /\ RunIdle
    /\ CmdIdle
    /\ SrvIdle
    /\ MoreIdle
    /\ tpc = "call"
    /\ response = <<>>
    /\ modelCalls = 0
    /\ translated = Undefined
    /\ trError = Undefined

NextTranslate == CallModel \/ ParseResponse

SpecTranslate == InitTranslate /\ [][NextTranslate]_vars

\* ------------------------------------------------------- resolveLocator
\* Selectors, values and URLs are sequences of characters.
WordChars ==
    { "a", "b", "c", "d", "e", "f", "g", "h", "i", "j", "k", "l", "m",
      "n", "o", "p", "q", "r", "s", "t", "u", "v", "w", "x", "y", "z",
      "A", "B", "C", "D", "E", "F", "G", "H", "I", "J", "K", "L", "M",
      "N", "O", "P", "Q", "R", "S", "T", "U", "V", "W", "X", "Y", "Z",
      "0", "1", "2", "3", "4", "5", "6", "7", "8", "9", "_" }
DecimalDigits == <<"0", "1", "2", "3", "4", "5", "6", "7", "8", "9">>
DigitChars == {DecimalDigits[k] : k \in 1..10}
RegExpFlags == {"g", "i", "m", "s", "u", "y"}
Quotes == {"'", "\""}
LineTerminators == {"\n"}

\* The role names of the patterns of lines 402 and 472.
RoleNames ==
    { <<"b", "u", "t", "t", "o", "n">>, <<"l", "i", "n", "k">>, <<"t", "e", "x", "t", "b", "o", "x">>, <<"c", "h", "e", "c", "k", "b", "o", "x">>, <<"r", "a", "d", "i", "o">>, <<"h", "e", "a", "d", "i", "n", "g">>,
      <<"i", "m", "g">>, <<"d", "i", "a", "l", "o", "g">>, <<"a", "l", "e", "r", "t">>, <<"n", "a", "v", "i", "g", "a", "t", "i", "o", "n">>, <<"m", "a", "i", "n">>, <<"f", "o", "r", "m">>,
      <<"r", "e", "g", "i", "o", "n">>, <<"l", "i", "s", "t">>, <<"l", "i", "s", "t", "i", "t", "e", "m">>, <<"t", "a", "b", "l", "e">>, <<"r", "o", "w">>, <<"c", "e", "l", "l">>,
      <<"o", "p", "t", "i", "o", "n">>, <<"c", "o", "m", "b", "o", "b", "o", "x">>, <<"m", "e", "n", "u">>, <<"m", "e", "n", "u", "i", "t", "e", "m">> }

startsWith(s, prefix) == StartsWith(s, 1, prefix)
sliceFrom(s, n) == SubSeq(s, n + 1, Len(s))
includes(s, part) ==
    \E i \in 1..(Len(s) + 1) : StartsWith(s, i, part)

\* A string in a condition: the empty string and undefined are falsy.
TruthyText(text) == IsDefined(text) /\ text[1] # <<>>

\* t matches /\[name=['"](.+?)['"]\]$/ from its first character.
NameTail(t) ==
    /\ Len(t) >= 10
    /\ startsWith(t, <<"[", "n", "a", "m", "e", "=">>)
    /\ t[7] \in Quotes
    /\ t[Len(t) - 1] \in Quotes
    /\ t[Len(t)] = "]"
    /\ \A k \in 8..(Len(t) - 2) : t[k] \notin LineTerminators

\* selector.match(/^role=(\w+)(?:\[name=['"](.+?)['"]\])?$/) (line 394).
RoleShorthand(s) ==
    /\ startsWith(s, <<"r", "o", "l", "e", "=">>)
    /\ \E e \in 6..Len(s) :
         /\ \A k \in 6..e : s[k] \in WordChars
         /\ e = Len(s) \/ NameTail(sliceFrom(s, e))

\* The match of lines 401-403: a listed role followed by [name="..."].
BracketedRole(s) ==
    \E role \in RoleNames :
        startsWith(s, role) /\ NameTail(sliceFrom(s, Len(role)))

\* s.match(/^\/(.+?)\/([gimsuy]*)$/) (lines 417 and 452).
RegexEnds(s) ==
    {j \in 3..Len(s) :
        /\ s[j] = "/"
        /\ \A k \in 2..(j - 1) : s[k] \notin LineTerminators
        /\ \A k \in (j + 1)..Len(s) : s[k] \in RegExpFlags}

RegexLike(s) == Len(s) >= 3 /\ s[1] = "/" /\ RegexEnds(s) # {}

RegexPattern(s) == SubSeq(s, 2, Least(RegexEnds(s)) - 1)
RegexFlagsOf(s) == sliceFrom(s, Least(RegexEnds(s)))

\* selector.match(/^getByText\(\/(.+?)\/([gimsuy]*)\)$/) (line 423).
GetByTextRegex(s) ==
    /\ startsWith(s, <<"g", "e", "t", "B", "y", "T", "e", "x", "t", "(">>)
    /\ s[Len(s)] = ")"
    /\ RegexLike(SubSeq(s, 11, Len(s) - 1))

\* new RegExp(pattern, flags) throws a SyntaxError on a repeated flag and
\* on a pattern that is not a regular expression (here: a lone bracket).
RegExpThrows(pattern, flags) ==
    \/ \E i, j \in 1..Len(flags) : i < j /\ flags[i] = flags[j]
    \/ pattern \in {<<"(">>, <<"[">>}

Locator(strategy, arg) ==
    [strategy |-> strategy, arg |-> arg, threw |-> FALSE]

\* A locator over a regular expression; its construction may throw.
RegexLocator(strategy, s) ==
    [strategy |-> strategy, arg |-> RegexPattern(s),
     threw |-> RegExpThrows(RegexPattern(s), RegexFlagsOf(s))]

\* Mutant of resolveLocator: the label= prefix is not recognised.
resolveLocator_NoLabel(selector) ==
    IF startsWith(selector, <<"t", "i", "m", "e", "o", "u", "t", "=">>) \/ startsWith(selector, <<"t", "i", "m", "e", "o", "u", "t", ":">>)
    THEN Locator("body", <<"b", "o", "d", "y">>)
    ELSE IF RoleShorthand(selector) THEN Locator("role shorthand", selector)
    ELSE IF BracketedRole(selector) THEN Locator("bracketed role", selector)
    ELSE IF startsWith(selector, <<"t", "e", "x", "t", "=">>)
    THEN IF RegexLike(sliceFrom(selector, 5))
         THEN RegexLocator("text=", sliceFrom(selector, 5))
         ELSE Locator("text=", sliceFrom(selector, 5))
    ELSE IF RegexLike(selector) THEN RegexLocator("regex", selector)
    ELSE IF GetByTextRegex(selector)
    THEN RegexLocator("getByText regex",
                      SubSeq(selector, 11, Len(selector) - 1))
    ELSE IF startsWith(selector, <<"p", "l", "a", "c", "e", "h", "o", "l", "d", "e", "r", "=">>)
    THEN Locator("placeholder=", sliceFrom(selector, 12))
    ELSE IF startsWith(selector, <<"t", "e", "s", "t", "i", "d", "=">>)
    THEN Locator("testid=", sliceFrom(selector, 7))
    ELSE Locator("structural", selector)

\* resolveLocator (lines 387-445): the Playwright locator chosen for a
\* selector, by the first test that applies.
resolveLocator(selector) ==
    IF startsWith(selector, <<"t", "i", "m", "e", "o", "u", "t", "=">>) \/ startsWith(selector, <<"t", "i", "m", "e", "o", "u", "t", ":">>)
    THEN Locator("body", <<"b", "o", "d", "y">>)
    ELSE IF RoleShorthand(selector) THEN Locator("role shorthand", selector)
    ELSE IF BracketedRole(selector) THEN Locator("bracketed role", selector)
    ELSE IF startsWith(selector, <<"t", "e", "x", "t", "=">>)
    THEN IF RegexLike(sliceFrom(selector, 5))
         THEN RegexLocator("text=", sliceFrom(selector, 5))
         ELSE Locator("text=", sliceFrom(selector, 5))
    ELSE IF RegexLike(selector) THEN RegexLocator("regex", selector)
    ELSE IF GetByTextRegex(selector)
    THEN RegexLocator("getByText regex",
                      SubSeq(selector, 11, Len(selector) - 1))
    ELSE IF startsWith(selector, <<"p", "l", "a", "c", "e", "h", "o", "l", "d", "e", "r", "=">>)
    THEN Locator("placeholder=", sliceFrom(selector, 12))
    ELSE IF startsWith(selector, <<"l", "a", "b", "e", "l", "=">>)
    THEN Locator("label=", sliceFrom(selector, 6))
    ELSE IF startsWith(selector, <<"t", "e", "s", "t", "i", "d", "=">>)
    THEN Locator("testid=", sliceFrom(selector, 7))
    ELSE Locator("structural", selector)

\* tryRelaxedLocator (lines 464-478) returns a locator, not null: the
\* selector is a role with a name constraint.
HasRelaxedLocator(selector) ==
    \/ /\ startsWith(selector, <<"r", "o", "l", "e", "=">>)
       /\ \E e \in 6..Len(selector) :
            /\ \A k \in 6..e : selector[k] \in WordChars
            /\ StartsWith(selector, e + 1, <<"[", "n", "a", "m", "e", "=">>)
    \/ \E role \in RoleNames :
         /\ startsWith(selector, role)
         /\ StartsWith(selector, Len(role) + 1, <<"[", "n", "a", "m", "e", "=">>)

\* extractTextFromSelector (lines 484-492).
extractTextFromSelector(selector) ==
    IF startsWith(selector, <<"t", "e", "x", "t", "=">>)
    THEN IF startsWith(sliceFrom(selector, 5), <<"/">>)
         THEN Undefined
         ELSE Some(sliceFrom(selector, 5))
    ELSE Undefined

\* selector.match(/^\d+$/) (line 267).
Numeric(s) == s # <<>> /\ \A k \in 1..Len(s) : s[k] \in DigitChars

DigitValue(c) == (CHOOSE k \in 1..10 : DecimalDigits[k] = c) - 1

RECURSIVE parseInt(_)
parseInt(s) ==
    IF s = <<>> THEN 0
    ELSE 10 * parseInt(SubSeq(s, 1, Len(s) - 1)) + DigitValue(s[Len(s)])

\* -------------------------------------------------------- executeAction
\* An element of the action list: an object with the fields of
\* PlaywrightAction (translator.ts lines 4-11), each possibly missing; null;
\* or a value that is not an object.
Element(type, selector, value, url, key) ==
    [kind |-> "object", type |-> type, selector |-> selector,
     value |-> value, url |-> url, key |-> key]
NullElement ==
    [kind |-> "null", type |-> "undefined", selector |-> Undefined,
     value |-> Undefined, url |-> Undefined, key |-> Undefined]
PrimitiveElement ==
    [kind |-> "primitive", type |-> "undefined", selector |-> Undefined,
     value |-> Undefined, url |-> Undefined, key |-> Undefined]

DefaultWaitMs == 1000

TypeError == "TypeError"
SyntaxErrorInRegExp == "SyntaxError: invalid regular expression"
PlaywrightError == "playwright call rejected"
UnknownTypeError == "Unknown action type"
WaitFailed == "Wait failed - element not found"
ExpectedTextError == "Expected text X but got Y"
AssertionFailed == "Assertion failed - element not found or not visible"

\* How executeAction ended, with the locator it resolved and the time it
\* slept, if any.
Passed(loc, ms) ==
    [passed |-> TRUE, error |-> "none", located |-> loc, slept |-> ms]
Threw(message, loc) ==
    [passed |-> FALSE, error |-> message, located |-> loc,
     slept |-> Undefined]

\* A Playwright call on a located element, which resolves or rejects.
Interact(pg, loc) ==
    IF pg.resolves THEN Passed(Some(loc), Undefined)
    ELSE Threw(PlaywrightError, Some(loc))

\* resolveLocator(page, action.selector!) and what follows it: reading
\* startsWith of an undefined selector throws a TypeError, and building the
\* locator may throw.
WithLocator(selector, Rest(_)) ==
    IF ~IsDefined(selector) THEN Threw(TypeError, Undefined)
    ELSE LET loc == resolveLocator(selector[1])
         IN  IF loc.threw THEN Threw(SyntaxErrorInRegExp, Some(loc))
             ELSE Rest(loc)

\* new URL(url) of page.goto accepts the text: http://host[:port][/path],
\* the port being digits.
ValidUrl(u) ==
    /\ startsWith(u, <<"h", "t", "t", "p", ":", "/", "/">>)
    /\ LET rest == sliceFrom(u, 7)
           slashes == {k \in 1..Len(rest) : rest[k] = "/"}
           authority == IF slashes = {} THEN rest
                        ELSE SubSeq(rest, 1, Least(slashes) - 1)
           colons == {k \in 1..Len(authority) : authority[k] = ":"}
       IN  IF colons = {} THEN authority # <<>>
           ELSE /\ Least(colons) > 1
                /\ \A k \in (Least(colons) + 1)..Len(authority) :
                     authority[k] \in DigitChars

\* Lines 228-236.  A missing url is interpolated as the text "undefined".
navigate(a, base, pg) ==
    LET url == IF IsDefined(a.url) /\ startsWith(a.url[1], <<"h", "t", "t", "p">>)
               THEN a.url[1]
               ELSE base \o (IF IsDefined(a.url) THEN a.url[1]
                             ELSE <<"u", "n", "d", "e", "f", "i", "n", "e", "d">>)
    IN  IF ValidUrl(url) /\ pg.resolves THEN Passed(Undefined, Undefined)
        ELSE Threw(PlaywrightError, Undefined)

\* Lines 238-242.
click(a, pg) == WithLocator(a.selector, LAMBDA loc : Interact(pg, loc))

\* Lines 244-248; fill rejects a value that is not a string.
fill(a, pg) ==
    WithLocator(a.selector,
        LAMBDA loc : IF IsDefined(a.value) THEN Interact(pg, loc)
                     ELSE Threw(PlaywrightError, Some(loc)))

\* Lines 250-264; selectOption and getByText reject a value that is not a
\* string.
select(a, pg) ==
    WithLocator(a.selector,
        LAMBDA loc : IF IsDefined(a.value) THEN Interact(pg, loc)
                     ELSE Threw(PlaywrightError, Some(loc)))

\* Mutant of wait: an element that is only attached does not count.
wait_VisibleOnly(a, pg) ==
    IF IsDefined(a.selector) /\ Numeric(a.selector[1])
    THEN Passed(Undefined, Some(parseInt(a.selector[1])))
    ELSE IF TruthyText(a.selector)
    THEN WithLocator(a.selector,
            LAMBDA loc :
                IF pg.visible THEN Passed(Some(loc), Undefined)
                ELSE IF HasRelaxedLocator(a.selector[1])
                        /\ pg.relaxedVisible
                THEN Passed(Some(loc), Undefined)
                ELSE Threw(WaitFailed, Some(loc)))
    ELSE Passed(Undefined, Some(DefaultWaitMs))

\* Lines 266-295.
wait(a, pg) ==
    IF IsDefined(a.selector) /\ Numeric(a.selector[1])
    THEN Passed(Undefined, Some(parseInt(a.selector[1])))
    ELSE IF TruthyText(a.selector)
    THEN WithLocator(a.selector,
            LAMBDA loc :
                IF pg.visible THEN Passed(Some(loc), Undefined)
                ELSE IF HasRelaxedLocator(a.selector[1])
                        /\ (pg.relaxedVisible \/ pg.relaxedCount > 0)
                THEN Passed(Some(loc), Undefined)
                ELSE IF pg.count > 0 THEN Passed(Some(loc), Undefined)
                ELSE Threw(WaitFailed, Some(loc)))
    ELSE Passed(Undefined, Some(DefaultWaitMs))

\* text?.includes(value) (line 317).
TextIncludes(text, value) == IsDefined(text) /\ includes(text[1], value)

\* Lines 334-369: the element did not become visible.
assertFallbacks(a, pg, searchText, loc) ==
    IF TruthyText(searchText) /\ pg.showsText
    THEN Passed(Some(loc), Undefined)
    ELSE IF HasRelaxedLocator(a.selector[1])
            /\ (pg.relaxedVisible \/ pg.relaxedBox)
    THEN Passed(Some(loc), Undefined)
    ELSE IF pg.count > 0 /\ pg.box THEN Passed(Some(loc), Undefined)
    ELSE IF TruthyText(searchText)
            /\ TextIncludes(pg.bodyText, searchText[1])
    THEN Passed(Some(loc), Undefined)
    ELSE Threw(AssertionFailed, Some(loc))

\* Lines 297-370.  extractTextFromSelector is reached only without a
\* truthy value, and throws a TypeError on an undefined selector.
assert(a, pg) ==
    IF ~TruthyText(a.value) /\ ~IsDefined(a.selector)
    THEN Threw(TypeError, Undefined)
    ELSE LET searchText == IF TruthyText(a.value) THEN a.value
                           ELSE extractTextFromSelector(a.selector[1])
         IN  WithLocator(a.selector,
                LAMBDA loc :
                    IF pg.visible
                    THEN IF TruthyText(a.value)
                            /\ ~TextIncludes(pg.text, a.value[1])
                            /\ ~pg.showsText
                         THEN Threw(ExpectedTextError, Some(loc))
                         ELSE Passed(Some(loc), Undefined)
                    ELSE assertFallbacks(a, pg, searchText, loc))

\* Lines 372-375; press rejects a key that is not a string.
keyboard(a, pg) ==
    IF IsDefined(a.key) /\ pg.resolves THEN Passed(Undefined, Undefined)
    ELSE Threw(PlaywrightError, Undefined)

ActionTypes ==
    {"navigate", "click", "fill", "select", "wait", "assert", "keyboard"}

\* One pass of the loop of executeScenario has ended (lines 157-203): the
\* step passed, or executeAction threw and the step failed.
Settle(r) ==
    /\ apc' = "settled"
    /\ located' = r.located
    /\ slept' = r.slept
    /\ stepOutcome' = IF r.passed THEN "passed" ELSE "failed"
    /\ stepError' = r.error
    /\ UNCHANGED <<action, baseUrl, page>>
    /\ UNCHANGED <<cbVars, loopVars, runVars, cmdVars, srvVars, trVars>>
    /\ UNCHANGED <<scnVars, agtVars, tdVars>>

Executing(type) ==
    apc = "start" /\ action.kind = "object" /\ action.type = type

ExecNavigate == Executing("navigate") /\ Settle(navigate(action, baseUrl, page))
ExecClick == Executing("click") /\ Settle(click(action, page))
ExecFill == Executing("fill") /\ Settle(fill(action, page))
ExecSelect == Executing("select") /\ Settle(select(action, page))
ExecWait == Executing("wait") /\ Settle(wait(action, page))
ExecAssert == Executing("assert") /\ Settle(assert(action, page))
ExecKeyboard == Executing("keyboard") /\ Settle(keyboard(action, page))

\* Line 377-378: no case of the switch applies; the type of a value that
\* is not an object is undefined.
ExecDefault ==
    /\ apc = "start"
    /\ action.kind # "null"
    /\ action.kind = "object" => action.type \notin ActionTypes
    /\ Settle(Threw(UnknownTypeError, Undefined))

\* Line 160: reading the description of null throws outside the inner try
\* block, so executeScenario rejects.
ExecNullElement ==
    /\ apc = "start"
    /\ action.kind = "null"
    /\ apc' = "settled"
    /\ stepOutcome' = "rejected"
    /\ stepError' = TypeError
    /\ UNCHANGED <<action, baseUrl, page, located, slept>>
    /\ UNCHANGED <<cbVars, loopVars, runVars, cmdVars, srvVars, trVars>>
    /\ UNCHANGED <<scnVars, agtVars, tdVars>>

\* ---- the elements, pages and base URLs tried
Selectors ==
    { <<"r", "o", "l", "e", "=", "i", "m", "g">>, <<"r", "o", "l", "e", "=", "b", "u", "t", "t", "o", "n", "[", "n", "a", "m", "e", "=", "\"", "G", "o", "\"", "]">>, <<"r", "o", "l", "e", "=", "a", " ", "b">>,
      <<"b", "u", "t", "t", "o", "n", "[", "n", "a", "m", "e", "=", "\"", "G", "o", "\"", "]">>, <<"l", "i", "s", "t", "i", "t", "e", "m", "[", "n", "a", "m", "e", "=", "'", "x", "'", "]">>, <<"d", "i", "v", "[", "n", "a", "m", "e", "=", "\"", "G", "o", "\"", "]">>,
      <<"t", "e", "x", "t", "=", "o", "k">>, <<"t", "e", "x", "t", "=">>, <<"t", "e", "x", "t", "=", "/", "o", "/", "i">>, <<"t", "e", "x", "t", "=", "/", "o", "/", "i", "i">>,
      <<"/", "o", "/", "i">>, <<"/", "o", "/", "x">>, <<"/", "(", "/">>, <<"g", "e", "t", "B", "y", "T", "e", "x", "t", "(", "/", "o", "/", "i", ")">>,
      <<"p", "l", "a", "c", "e", "h", "o", "l", "d", "e", "r", "=", "o", "k">>, <<"l", "a", "b", "e", "l", "=", "o", "k">>, <<"t", "e", "s", "t", "i", "d", "=", "o", "k">>,
      <<"t", "i", "m", "e", "o", "u", "t", "=", "5">>, <<"t", "i", "m", "e", "o", "u", "t", ":", "5">>, <<"#", "o", "k">> }

Values == {Undefined, Some(<<>>), Some(<<"o", "k">>)}

AssertSelectors ==
    { Undefined, Some(<<"#", "o", "k">>), Some(<<"t", "e", "x", "t", "=", "o", "k">>), Some(<<"t", "e", "x", "t", "=", "/", "o", "/", "i">>),
      Some(<<"r", "o", "l", "e", "=", "b", "u", "t", "t", "o", "n", "[", "n", "a", "m", "e", "=", "\"", "G", "o", "\"", "]">>) }

WaitSelectors ==
    { Undefined, Some(<<>>), Some(<<"5">>), Some(<<"2", "5", "0">>), Some(<<"#", "o", "k">>),
      Some(<<"b", "u", "t", "t", "o", "n", "[", "n", "a", "m", "e", "=", "\"", "G", "o", "\"", "]">>), Some(<<"t", "i", "m", "e", "o", "u", "t", "=", "5">>) }

Elements ==
    {Element("navigate", Undefined, Undefined, u, Undefined) :
        u \in {Undefined, Some(<<"/", "x">>), Some(<<"h", "t", "t", "p", ":", "/", "/", "e", "/", "x">>)}}
    \cup {Element("click", s, Undefined, Undefined, Undefined) :
        s \in {Undefined} \cup {Some(t) : t \in Selectors}}
    \cup {Element(type, s, v, Undefined, Undefined) :
        type \in {"fill", "select"}, s \in {Undefined, Some(<<"#", "o", "k">>)},
        v \in {Undefined, Some(<<"o", "k">>)}}
    \cup {Element("wait", s, Undefined, Undefined, Undefined) :
        s \in WaitSelectors}
    \cup {Element("assert", s, v, Undefined, Undefined) :
        s \in AssertSelectors, v \in Values}
    \cup {Element("keyboard", Undefined, Undefined, Undefined, k) :
        k \in {Undefined, Some(<<"E", "n", "t", "e", "r">>)}}
    \cup {Element(type, Some(<<"#", "o", "k">>), Undefined, Undefined, Undefined) :
        type \in {"hover", "undefined"}}
    \cup {NullElement, PrimitiveElement}

\* What the page answers: whether its calls resolve, whether the located
\* element becomes visible within the timeout, its text content, whether
\* the searched text is visible somewhere, what the relaxed locator finds,
\* how many elements the locator matches and whether the first has a
\* bounding box, and the text of the body.
Pages ==
    [ resolves : BOOLEAN, visible : BOOLEAN,
      text : {Undefined, Some(<<"a", "n", " ", "o", "k">>), Some(<<"n", "o">>)},
      showsText : BOOLEAN, relaxedVisible : BOOLEAN,
      relaxedBox : BOOLEAN, relaxedCount : {0, 1}, count : {0, 1},
      box : BOOLEAN, bodyText : {Some(<<>>), Some(<<"a", "n", " ", "o", "k">>)} ]

BlankPage ==
    [ resolves |-> FALSE, visible |-> FALSE, text |-> Undefined,
      showsText |-> FALSE, relaxedVisible |-> FALSE, relaxedBox |-> FALSE,
      relaxedCount |-> 0, count |-> 0, box |-> FALSE,
      bodyText |-> Some(<<>>) ]

\* The pages that tell the runs of an element apart.
PagesFor(a) ==
    IF a.type \in {"wait", "assert"} THEN Pages
    ELSE {[BlankPage EXCEPT !.resolves = b] : b \in BOOLEAN}

BaseUrls == {<<"h", "t", "t", "p", ":", "/", "/", "h", ":", "3", "0", "0", "0">>, <<"h", "t", "t", "p", ":", "/", "/", "h", ":", "3", "0", "0", "0", "/">>}

InitAction ==
    /\ CBIdle
    /\ LoopIdle
    /\ RunIdle
    /\ CmdIdle
    /\ SrvIdle
    /\ TrIdle
    /\ ScnIdle
    /\ AgtIdle
    /\ TdIdle
    /\ apc = "start"
    /\ action \in Elements
    /\ baseUrl \in (IF action.type = "navigate" THEN BaseUrls
                    ELSE {<<"h", "t", "t", "p", ":", "/", "/", "h", ":", "3", "0", "0", "0">>})
    /\ page \in PagesFor(action)
    /\ located = Undefined
    /\ slept = Undefined
    /\ stepOutcome = "none"
    /\ stepError = "none"

NextAction ==
    \/ ExecNavigate
    \/ ExecClick
    \/ ExecFill
    \/ ExecSelect
    \/ ExecWait
    \/ ExecAssert
    \/ ExecKeyboard
    \/ ExecDefault
    \/ ExecNullElement

SpecAction == InitAction /\ [][NextAction]_vars

\* --------------------------------------------- verifyCommand, loopCommand
\* process.exit(code): the process ends at once; no finally block runs.
ProcessExit(code) ==
    /\ exitStatus' = Some(code)
    /\ cpc' = "exited"

\* Mutant of VerifyFailed: only a run without any pass counts as failed.
VerifyFailed_NonePassed(sm) == sm.passed = 0

\* The test of cli/spec.ts line 91.
VerifyFailed(sm) == sm.failed > 0

\* cli/spec.ts lines 84-93: runAllScenarios returned its summary.
VerifyReturned ==
    /\ command = "verify"
    /\ cpc = "running"
    /\ rpc = "done"
    /\ IF VerifyFailed(summary[1])
       THEN ProcessExit(1)
       ELSE cpc' = "finally" /\ UNCHANGED exitStatus
    /\ UNCHANGED <<command, cbVars, loopVars, runVars, srvVars, trVars,
                   moreVars>>

\* cli/spec.ts lines 94-96: runAllScenarios threw.
VerifyThrew ==
    /\ command = "verify"
    /\ cpc = "running"
    /\ rpc = "threw"
    /\ ProcessExit(1)
    /\ UNCHANGED <<command, cbVars, loopVars, runVars, srvVars, trVars,
                   moreVars>>

\* cli/spec.ts lines 97-99: the finally block, reached when neither the try
\* block nor the catch block has ended the process.
VerifyFinally ==
    /\ command = "verify"
    /\ cpc = "finally"
    /\ serverStops' = serverStops + 1
    /\ cpc' = "returned"
    /\ UNCHANGED <<command, exitStatus, cbVars, runVars, srvVars, trVars,
                   moreVars>>
    /\ UNCHANGED <<pc, maxIterations, iteration, agentResult, lastSummary,
                   lastFailureReport, result, thrown, browser, agentCalls,
                   agentThrew, verifyStarted, runs, reportsWritten, prompts,
                   files>>

\* cli/loop.ts lines 18-38: runRalphLoop returned its result.
LoopReturned ==
    /\ command = "loop"
    /\ cpc = "running"
    /\ pc = "returned"
    /\ IF result[1].success
       THEN cpc' = "returned" /\ UNCHANGED exitStatus
       ELSE ProcessExit(1)
    /\ UNCHANGED <<command, cbVars, loopVars, runVars, srvVars, trVars,
                   moreVars>>

\* cli/loop.ts lines 39-42: runRalphLoop threw.
LoopThrew ==
    /\ command = "loop"
    /\ cpc = "running"
    /\ pc = "threw"
    /\ ProcessExit(1)
    /\ UNCHANGED <<command, cbVars, loopVars, runVars, srvVars, trVars,
                   moreVars>>

\* The command's promise resolved: nothing is left to run and the process
\* ends with status 0 (cli/index.ts line 50).
ProcessEnds ==
    /\ cpc = "returned"
    /\ ProcessExit(0)
    /\ UNCHANGED <<command, cbVars, loopVars, runVars, srvVars, trVars,
                   moreVars>>

InitVerify ==
    /\ RunEntry
    /\ command = "verify"
    /\ cpc = "running"
    /\ exitStatus = Undefined
    /\ SrvIdle
    /\ TrIdle
    /\ MoreIdle

InitLoop ==
    /\ LoopEntry
    /\ command = "loop"
    /\ cpc = "running"
    /\ exitStatus = Undefined
    /\ SrvIdle
    /\ TrIdle
    /\ MoreIdle

NextVerify ==
    \/ NextRun
    \/ VerifyReturned
    \/ VerifyThrew
    \/ VerifyFinally
    \/ ProcessEnds

NextLoop ==
    \/ Next
    \/ LoopReturned
    \/ LoopThrew
    \/ ProcessEnds

\* litmus verify.
SpecVerify == InitVerify /\ [][NextVerify]_vars

\* litmus verify or litmus loop.
SpecCommands == (InitVerify \/ InitLoop) /\ [][NextVerify \/ NextLoop]_vars

\* ------------------------------------------------- claims on the runner
\* The attempts made on the actions of the scenario being (or last) run.
Attempts == IF events = <<>> THEN <<>> ELSE events[Len(events)].attempts

ExecutorReturned == IsDefined(completion) /\ ~completion[1].threw

ExecutorResult == completion[1].value[1]

\* C1: executor fail-fast.  Actions are attempted in order, each at most
\* once, and none after an action that did not pass; when executeScenario
\* returns and the k-th action was the first to fail, the result has
\* passed = false, exactly k step results (1..k-1 passed, k failed) and
\* failedStep = k.
C1_FailFast ==
    /\ Len(Attempts) <= actions
    /\ \A m \in 1..Len(Attempts) : Attempts[m].index = m
    /\ \A m \in 1..(Len(Attempts) - 1) : Attempts[m].outcome = "passed"
    /\ \A k \in 1..Len(Attempts) :
         (ExecutorReturned /\ Attempts[k].outcome = "failed") =>
            /\ ExecutorResult.passed = FALSE
            /\ Len(ExecutorResult.stepResults) = k
            /\ \A m \in 1..(k - 1) : ExecutorResult.stepResults[m].passed
            /\ ExecutorResult.stepResults[k].passed = FALSE
            /\ \A m \in 1..k : ExecutorResult.stepResults[m].step = m
            /\ ExecutorResult.failedStep = Some(k)

\* The second of three actions failed and the result was returned.
C1_Witness ==
    /\ epc = "returned"
    /\ ExecutorReturned
    /\ actions = 3
    /\ Len(Attempts) = 2
    /\ Attempts[2].outcome = "failed"
    /\ ExecutorResult.failedStep = Some(2)

\* What happened to scenario j made translation or execution throw.
ScenarioThrew(j) ==
    \/ events[j].translated = "threw"
    \/ events[j].setup \notin {"none", "ok"}
    \/ events[j].evidence = "mkdir threw"
    \/ \E m \in 1..Len(events[j].attempts) :
         events[j].attempts[m].outcome = "null"

ThrownMessage(j) ==
    CASE events[j].translated = "threw" -> TranslationError
      [] events[j].setup = "launch rejected" -> LaunchError
      [] events[j].setup = "newContext rejected" -> NewContextError
      [] events[j].setup = "newPage rejected" -> NewPageError
      [] events[j].evidence = "mkdir threw" -> MkdirError
      [] OTHER -> NullActionError

\* The result scenario j has when run on its own, from what happened to it
\* and to nothing else.
OwnResult(j) ==
    LET att == events[j].attempts
        n == Len(att)
        steps == [m \in 1..n |->
                    [step |-> m, passed |-> att[m].outcome = "passed",
                     screenshotPath |-> /\ att[m].outcome = "failed"
                                        /\ events[j].evidence = "saved"]]
    IN  IF ScenarioThrew(j)
        THEN [scenario |-> scenarios[j], passed |-> FALSE,
              stepResults |-> <<>>, failedStep |-> Undefined,
              actual |-> Some(ThrownMessage(j)), screenshotPath |-> FALSE]
        ELSE IF n > 0 /\ att[n].outcome = "failed"
        THEN [scenario |-> scenarios[j], passed |-> FALSE,
              stepResults |-> steps, failedStep |-> Some(n),
              actual |-> Some(ActionError),
              screenshotPath |-> events[j].evidence = "saved"]
        ELSE [scenario |-> scenarios[j], passed |-> TRUE,
              stepResults |-> steps, failedStep |-> Undefined,
              actual |-> Undefined, screenshotPath |-> FALSE]

ScenariosDone ==
    IF rpc = "scenarios" THEN scenarioIndex - 1
    ELSE IF rpc = "executing" THEN scenarioIndex - 1
    ELSE IF rpc = "done" THEN Len(scenarios)
    ELSE Len(results)

\* C2: partial-failure isolation.  Every scenario the loop is done with has
\* one result, in scenario order; the result of a scenario whose translation
\* or execution threw is failed with no step results and the error message
\* as actual; every result is the scenario's own, whatever happened to the
\* others; the summary returned holds exactly these N results.
C2_PartialFailureIsolation ==
    /\ Len(results) = ScenariosDone
    /\ \A j \in 1..Len(results) :
         /\ results[j].scenario = scenarios[j]
         /\ results[j] = OwnResult(j)
         /\ ScenarioThrew(j) =>
              /\ results[j].passed = FALSE
              /\ results[j].stepResults = <<>>
              /\ results[j].actual = Some(ThrownMessage(j))
    /\ rpc = "done" =>
         /\ IsDefined(summary)
         /\ summary[1].total = Len(scenarios)
         /\ summary[1].results = results
         /\ summary[1].passed + summary[1].failed = Len(scenarios)

\* Of two scenarios the first threw in execution after a step had passed,
\* the second passed all its steps, and the summary was returned.
C2_Witness ==
    /\ rpc = "done"
    /\ Len(scenarios) = 2
    /\ ScenarioThrew(1)
    /\ Len(events[1].attempts) = 2
    /\ results[2].passed
    /\ Len(results[2].stepResults) = 2
    /\ summary[1].failed = 1

\* -------------------------------------------------- claims on the loop
Terminated == pc \in {"returned", "threw"}


\* The ways runRalphLoop ends.
EndsDone == IsDefined(result) /\ result[1].success

EndsStoppedByBreaker ==
    /\ IsDefined(result)
    /\ ~result[1].success
    /\ result[1].stoppedReason
         \in {Some(NoProgress), Some(Regression), Some(Oscillation)}

EndsStoppedAtMax ==
    /\ IsDefined(result)
    /\ ~result[1].success
    /\ result[1].stoppedReason = Some(MaxIterationsReason)

EndsAgentException == pc = "threw" /\ thrown = "coding agent"

EndsCleanupException == pc = "threw" /\ thrown = "closeBrowser"

ExactlyOne(flags) == Cardinality({k \in 1..Len(flags) : flags[k]}) = 1

RunsThat(how) == {k \in 1..Len(runs) : runs[k] = how}

RecordedIterations == {history[k].iteration : k \in 1..Len(history)}

\* C3: an iteration whose verification run throws appends no record to the
\* breaker and the loop proceeds to the next iteration; between iterations
\* and at the end the history length equals the number of iterations whose
\* verification completed with failed > 0.
C3_ThrownRunNotRecorded ==
    /\ \A k \in RunsThat("threw") :
         k \notin RecordedIterations /\ iteration > k
    /\ pc # "deciding" => Len(history) = Cardinality(RunsThat("failed"))
    /\ RecordedIterations \subseteq RunsThat("failed")

C3_Witness ==
    /\ pc = "coding"
    /\ Len(runs) = 3
    /\ runs[2] = "threw"
    /\ Len(history) = 2

OneOfFiveEndings ==
    /\ agentCalls <= maxIterations
    /\ Terminated =>
         /\ ExactlyOne(<<EndsDone, EndsStoppedByBreaker, EndsStoppedAtMax,
                         EndsAgentException, EndsCleanupException>>)
         /\ (EndsAgentException \/ EndsCleanupException) <=> ~IsDefined(result)

C5_SuccessIffAllPass ==
    /\ Terminated => (EndsDone <=> RunsThat("passed") # {})
    /\ \A k \in RunsThat("passed") :
         /\ k = Len(runs) /\ k = iteration /\ k = agentCalls
         /\ k \notin RecordedIterations
         /\ k \notin reportsWritten
         /\ pc \in {"deciding", "finally", "returned"}
         /\ pc # "deciding" => (EndsDone /\ result[1].iterations = k)
    /\ IsDefined(result) =>
         (result[1].success <=> ~IsDefined(result[1].stoppedReason))

C5_Witness ==
    /\ pc = "returned"
    /\ EndsDone
    /\ result[1].iterations = 3
    /\ Len(history) = 2

\* C6: in every iteration in which the coding-agent invocation resolves,
\* with success or without, the verification run is started in that same
\* iteration before any stop decision; a result with success=false never by
\* itself stops the loop or skips verification.
C6_AgentFailureStillVerifies ==
    /\ verifyStarted = 1..(agentCalls - (IF agentThrew THEN 1 ELSE 0))
    /\ (pc \in {"finally", "returned", "threw"} /\ ~agentThrew)
         => Len(runs) = agentCalls
    /\ (EndsDone \/ EndsStoppedByBreaker)
         => (result[1].iterations \in verifyStarted
             /\ Len(runs) = result[1].iterations)

C6_Witness ==
    /\ pc = "deciding"
    /\ agentResult = Some([success |-> FALSE])
    /\ iteration = 2
    /\ 2 \in verifyStarted

\* ------------------------------------------------ claims on the breaker
\* The failing sets of the last records, as sets.
FailingSet(r) == {r.failingScenarios[k] : k \in 1..Len(r.failingScenarios)}

\* The history obtained by recording, in order, runs over `total` scenarios
\* whose failing sets are those of `sets`.
RECURSIVE HistoryOf(_, _)
HistoryOf(sets, total) ==
    IF sets = <<>> THEN <<>>
    ELSE record(HistoryOf(SubSeq(sets, 1, Len(sets) - 1), total), Len(sets),
                Summarize(ResultsOf(total, sets[Len(sets)])))

\* The history whose failed counts are `counts` (the first c scenarios fail).
CountsHistory(counts) ==
    HistoryOf([k \in 1..Len(counts) |-> 1..counts[k]], 10)

\* The stated stagnation condition: the n most recent records exist and
\* share one nonzero failed count.
WindowSameNonzero(h, n) ==
    /\ Len(h) >= Max(3, n)
    /\ \A k \in (Len(h) - n + 1)..Len(h) :
         h[k].failed = h[Len(h)].failed /\ h[k].failed > 0

\* The stated regression condition.
WorseThanBest(h) ==
    /\ h[Len(h)].failed > h[Len(h) - 1].failed
    /\ \E k \in 1..Len(h) :
         /\ \A j \in 1..Len(h) : h[k].failed <= h[j].failed
         /\ h[Len(h)].failed - h[k].failed > 3

\* The stated oscillation condition on the last four records A, B, C, D.
AlternatingSets(h) ==
    LET A == FailingSet(h[Len(h) - 3])
        B == FailingSet(h[Len(h) - 2])
        C == FailingSet(h[Len(h) - 1])
        D == FailingSet(h[Len(h)])
    IN  A = C /\ B = D /\ A # B

Called == stopReason # "not called"

\* The stagnation example: five records with failed = 3 after two varying
\* ones stop with "no progress"; with any one of the five changed to another
\* nonzero count they do not.
StagnationExample ==
    /\ shouldStop(CountsHistory(<<7, 5, 3, 3, 3, 3, 3>>), DefaultWindow)
         = NoProgress
    /\ \A pos \in 3..7 : \A c \in {1, 2, 4, 5} :
         shouldStop(CountsHistory(
             [k \in 1..7 |-> IF k = pos THEN c
                             ELSE <<7, 5, 3, 3, 3, 3, 3>>[k]]),
             DefaultWindow) # NoProgress

\* C7: for a breaker with window N, shouldStop returns the "no progress"
\* reason if and only if at least max(3, N) records exist and the N most
\* recent records all have the same nonzero failed count; the stagnation
\* example behaves as stated.
C7_Stagnation ==
    /\ Called =>
         ((stopReason = NoProgress)
            <=> WindowSameNonzero(history, maxStagnantIterations))
    /\ StagnationExample

C7_Witness ==
    /\ stopReason = NoProgress
    /\ maxStagnantIterations = DefaultWindow
    /\ Len(history) = DefaultWindow

\* The regression example: failed counts [10,6,4,4,9] stop with
\* regression, [10,6,4,4,7] continue.
RegressionExample ==
    /\ shouldStop(CountsHistory(<<10, 6, 4, 4, 9>>), DefaultWindow) = Regression
    /\ shouldStop(CountsHistory(<<10, 6, 4, 4, 7>>), DefaultWindow) = Continue

\* C8: with at least 3 records and the stagnation condition not met,
\* shouldStop returns the "regression" reason if and only if the latest
\* failed count exceeds the previous one and exceeds the minimum failed
\* count of the whole history by more than 3; the regression example
\* behaves as stated.
C8_Regression ==
    /\ (/\ Called
        /\ Len(history) >= 3
        /\ ~WindowSameNonzero(history, maxStagnantIterations))
         => ((stopReason = Regression) <=> WorseThanBest(history))
    /\ RegressionExample

C8_Witness ==
    /\ stopReason = Regression
    /\ Len(history) > 3
    /\ history[1].failed > 0

\* The oscillation example: failing sets [{a},{b},{a},{b}] oscillate,
\* [{a},{b},{c},{b}] do not.
OscillationExample ==
    /\ shouldStop(HistoryOf(<<{1}, {2}, {1}, {2}>>, 3), DefaultWindow)
         = Oscillation
    /\ shouldStop(HistoryOf(<<{1}, {2}, {3}, {2}>>, 3), DefaultWindow)
         = Continue

\* C9: with at least 4 records and neither stagnation nor regression
\* matching, shouldStop returns the "oscillation" reason if and only if, for
\* the last four records A, B, C, D, the failing set of A equals that of C,
\* that of B equals that of D, and that of A differs from that of B; the
\* oscillation example behaves as stated.
C9_Oscillation ==
    /\ (/\ Called
        /\ Len(history) >= 4
        /\ ~WindowSameNonzero(history, maxStagnantIterations)
        /\ ~WorseThanBest(history))
         => ((stopReason = Oscillation) <=> AlternatingSets(history))
    /\ OscillationExample

C9_Witness ==
    /\ stopReason = Oscillation
    /\ Cardinality(FailingSet(history[Len(history)])) = 2

\* C10: the breaker never signals a stop while fewer than 3 records exist,
\* whatever their contents and whatever the window; consequently the loop
\* is never stopped by the breaker before its third recorded iteration.
C10_NoStopBeforeThree ==
    /\ (Called /\ stopReason # Continue) => Len(history) >= 3
    /\ EndsStoppedByBreaker => Len(history) >= 3

C10_Witness ==
    /\ Called
    /\ Len(history) = 2
    /\ maxStagnantIterations = 2
    /\ history[1].failed = history[2].failed
    /\ history[1].failed > 0
    /\ stopReason = Continue

\* The reason the stated order gives: stagnation, then regression, then
\* oscillation, the first that matches; continue when none does.
FirstMatch(h, n) ==
    IF Len(h) < 3 THEN Continue
    ELSE IF WindowSameNonzero(h, n) THEN NoProgress
    ELSE IF WorseThanBest(h) THEN Regression
    ELSE IF Len(h) >= 4 /\ AlternatingSets(h) THEN Oscillation
    ELSE Continue

\* C11: the three stop conditions are evaluated in the order stagnation,
\* regression, oscillation and the first that matches gives the reason; a
\* history that is both stagnant and oscillating yields "no progress", one
\* that is both regressed and oscillating yields "regression" (for every
\* window of 2 or more, where a regressed history cannot be stagnant), and
\* the result is continue when none matches.
C11_FirstMatchWins ==
    Called =>
      /\ stopReason = FirstMatch(history, maxStagnantIterations)
      /\ (/\ WindowSameNonzero(history, maxStagnantIterations)
          /\ Len(history) >= 4
          /\ AlternatingSets(history)) => stopReason = NoProgress
      /\ (/\ maxStagnantIterations >= 2
          /\ Len(history) >= 4
          /\ WorseThanBest(history)
          /\ AlternatingSets(history)) => stopReason = Regression
      /\ (/\ ~WindowSameNonzero(history, maxStagnantIterations)
          /\ ~(Len(history) >= 3 /\ WorseThanBest(history))
          /\ ~(Len(history) >= 4 /\ AlternatingSets(history)))
           => stopReason = Continue

\* A history both regressed and oscillating was stopped for regression.
C11_Witness ==
    /\ stopReason = Regression
    /\ Len(history) >= 4
    /\ AlternatingSets(history)
    /\ WorseThanBest(history)

\* C12: getStuckScenarios returns exactly the scenario identifiers that are
\* in the failing set of each of the 3 most recent records, each identifier
\* once, and the empty list when fewer than 3 records exist.
C12_StuckScenarios ==
    IsDefined(stuck) =>
      LET out == stuck[1]
          n == Len(history)
      IN  /\ n < 3 => out = <<>>
          /\ n >= 3 =>
               /\ {out[k] : k \in 1..Len(out)} =
                    FailingSet(history[n]) \cap FailingSet(history[n - 1])
                      \cap FailingSet(history[n - 2])
               /\ \A j, k \in 1..Len(out) : out[j] = out[k] => j = k

\* One scenario failed in all of the last three records, another in two.
C12_Witness ==
    /\ IsDefined(stuck)
    /\ Len(history) >= 4
    /\ Len(stuck[1]) = 1
    /\ Cardinality(FailingSet(history[Len(history) - 2])) = 2
    /\ Cardinality(FailingSet(history[Len(history)])) = 2

\* ------------------------------------------------- claims on clean-up
\* C13: on every exit from runRalphLoop (success, breaker stop, max
\* iterations or a propagated exception) the shared browser is closed and
\* stopDevServer has been invoked before control returns, also when an
\* earlier step, closing the browser included, failed.
C13_CleanupOnEveryExit ==
    Terminated => (browser = "none" /\ serverStops >= 1)

\* C14: in the verify command stopDevServer is invoked before the process
\* terminates on every outcome of the run: all scenarios passing, some
\* failing (exit code 1) and runAllScenarios throwing (exit code 1).
C14_VerifyStopsServer ==
    (command = "verify" /\ cpc = "exited") => serverStops >= 1

\* C15: the exit status is non-zero whenever a verify run ends with
\* failed > 0 or throws and whenever the loop ends with success = false or
\* throws; it is zero only when the last verification completed with zero
\* failures.
C15_ExitStatus ==
    cpc = "exited" =>
      /\ command = "verify" =>
           /\ (rpc = "threw" \/ (rpc = "done" /\ summary[1].failed > 0))
                => exitStatus # Some(0)
           /\ exitStatus = Some(0) =>
                (rpc = "done" /\ summary[1].failed = 0)
      /\ command = "loop" =>
           /\ (pc = "threw" \/ (pc = "returned" /\ ~result[1].success))
                => exitStatus # Some(0)
           /\ exitStatus = Some(0) =>
                /\ runs # <<>>
                /\ runs[Len(runs)] = "passed"
                /\ lastSummary[1].failed = 0

\* A verify run in which one of two scenarios failed exited with status 1.
C15_Witness ==
    /\ command = "verify"
    /\ cpc = "exited"
    /\ exitStatus = Some(1)
    /\ rpc = "done"
    /\ summary[1].failed = 1
    /\ summary[1].passed = 1

\* C16: at every point of a verification run at most one browsing context
\* is open: executeScenario creates one context per scenario and closes it
\* on every exit path (all actions passed, an action failed, an exception
\* thrown) before the next scenario is translated or executed.
C16_OneContextAtATime ==
    /\ openContexts \in {0, 1}
    /\ createdContexts <= Len(events)
    /\ rpc \in {"scenarios", "done", "threw"} => openContexts = 0
    /\ epc \in {"returned", "threw"} => openContexts = 0
    /\ epc = "setup" => openContexts = 0

\* The second scenario runs in its own context after the first one's
\* execution threw with its context open.
C16_Witness ==
    /\ Len(events) = 2
    /\ ScenarioThrew(1)
    /\ events[1].setup \in {"ok", "newPage rejected"}
    /\ createdContexts = 2
    /\ openContexts = 1

\* The stated order of the stages.
StageOrder ==
    <<"load", "filter", "setup", "server", "scenario", "close", "aggregate">>

Rank(stage) == CHOOSE k \in 1..Len(StageOrder) : StageOrder[k] = stage

StagesStarted == {stages[k] : k \in 1..Len(stages)}

\* C17: runAllScenarios performs its stages strictly in the order load,
\* filter, setup command, server reachability, scenarios, browser close,
\* aggregate; a failure in one of the first four aborts the run with an
\* error before any later stage starts: no setup command runs when no
\* scenario is found or the filter matches nothing, and no server is
\* probed and no scenario translated when the setup command fails.
C17_StagesInOrder ==
    /\ \A j, k \in 1..Len(stages) :
         j < k => \/ Rank(stages[j]) < Rank(stages[k])
                  \/ stages[j] = "scenario" /\ stages[k] = "scenario"
    /\ stages # <<>> => stages[1] = "load"
    /\ runError = NoScenariosError =>
         rpc = "threw" /\ stages = <<"load">>
    /\ runError = NoMatchError =>
         rpc = "threw" /\ stages = <<"load", "filter">>
    /\ runError = SetupError =>
         /\ rpc = "threw"
         /\ stages[Len(stages)] = "setup"
         /\ StagesStarted \cap {"server", "scenario", "close", "aggregate"}
              = {}
    /\ runError = ServerError =>
         /\ rpc = "threw"
         /\ stages[Len(stages)] = "server"
         /\ StagesStarted \cap {"scenario", "close", "aggregate"} = {}
    /\ rpc = "done" =>
         /\ {"load", "server", "close", "aggregate"} \subseteq StagesStarted
         /\ Len(SelectSeq(stages, LAMBDA st : st = "scenario"))
              = Len(scenarios)

\* The setup command failed after the filter had kept a scenario.
C17_Witness ==
    /\ rpc = "threw"
    /\ runError = SetupError
    /\ stages = <<"load", "filter", "setup">>

\* ------------------------------------------- claims on ensureDevServer
ServerDone == spc \in {"returned", "threw"}

\* The positions of the log at which a process was spawned.
Spawns == {k \in 1..Len(serverLog) : serverLog[k].op = "spawn"}

LastProbeReady ==
    /\ IsDefined(lastProbe)
    /\ lastProbe[1].responded
    /\ lastProbe[1].status < 500

C18_Safety ==
    /\ srvError = NoCommandError =>
         /\ spc = "threw"
         /\ ~devCommand
         /\ ~LastProbeReady
         /\ serverLog = <<>>
    /\ ~devCommand => serverLog = <<>>
    /\ Cardinality(Spawns) <= 1
    /\ \A k \in Spawns :
         /\ k >= 3
         /\ serverLog[k - 1] = KillPort
         /\ serverLog[k - 2] = KillPort
         /\ \A j \in 1..(k - 1) : serverLog[j].op \in {"SIGTERM", "kill port"}
         /\ probes >= 1
    /\ spc = "returned" =>
         /\ LastProbeReady
         /\ Spawns # {} => probes >= 2
    /\ spc = "poll" => Spawns # {}
    /\ elapsed < MaxWaitSeconds + ProbeTimeoutSeconds + SleepSeconds
    /\ srvError = StartTimeoutError =>
         /\ spc = "threw"
         /\ devCommand
         /\ ~LastProbeReady
         /\ elapsed >= MaxWaitSeconds
         /\ Spawns # {}
         /\ serverProcess = NoProcess
         /\ serverLog[Len(serverLog)] = KillPort
         /\ \A k \in Spawns : \A j \in (k + 1)..(Len(serverLog) - 1) :
              serverLog[j] = Signal(SpawnedChild)

C19_ReadyAtFirstProbe ==
    [][(/\ spc = "probe"
        /\ spc' # "probe"
        /\ lastProbe'[1].responded
        /\ lastProbe'[1].status < 500)
         => (/\ spc' = "returned"
             /\ serverProcess' = serverProcess
             /\ running' = running
             /\ devCommand' = devCommand
             /\ srvError' = "none"
             /\ serverLog' = <<>>)]_vars

\* The first probe got a 404 with a start command configured and a child
\* of an earlier call held.
C19_Witness ==
    /\ spc = "returned"
    /\ probes = 1
    /\ lastProbe = Some(Response(404))
    /\ devCommand
    /\ serverProcess = EarlierChild
    /\ serverLog = <<>>

\* ----------------------------------------- claims on translateScenario
\* The text left when a code fence that surrounds the whole response, with
\* its "json" tag, is taken away.
StripSurroundingFence(text) ==
    LET t == trim(text)
    IN  IF Len(t) >= 6 /\ FenceAt(t, 1) /\ FenceAt(t, Len(t) - 2)
        THEN LET inner == SubSeq(t, 4, Len(t) - 3)
             IN  IF StartsWith(inner, 1, JsonTag)
                 THEN trim(SubSeq(inner, 5, Len(inner)))
                 ELSE trim(inner)
        ELSE t

\* C20: translateScenario issues exactly one language-model call and never
\* retries; if the response, after stripping a surrounding code fence, is
\* not parseable JSON or parses to a value that is not an array, it throws
\* an error carrying at most the first 300 characters of the raw response;
\* otherwise it returns the parsed array with the order of its elements.
C20_TranslateOnce ==
    /\ modelCalls <= 1
    /\ tpc \in {"parse", "returned", "threw"} => modelCalls = 1
    /\ (tpc \in {"returned", "threw"} /\ response # <<>>) =>
         LET stated == JSONparse(StripSurroundingFence(response))
         IN  IF stated.valid /\ stated.isArray
             THEN /\ tpc = "returned"
                  /\ translated = Some(stated.elements)
             ELSE /\ tpc = "threw"
                  /\ Len(trError[1].response) <= 300
                  /\ trError[1].response =
                       SubSeq(response, 1, Len(trError[1].response))
                  /\ Len(response) <= 300
                       => trError[1].response = response

\* ------------------------------------------ claims on prompts and files
\* The iterations before k whose verification completed with failures.
FailedBefore(k) == {j \in 1..(k - 1) : j <= Len(runs) /\ runs[j] = "failed"}

\* The failure report produced by iteration j.
ReportOf(j) == files[FailuresPath(j)]

\* C21 as stated: the prompt of every iteration k > 1 contains the failure
\* report of the most recent earlier iteration whose verification completed
\* with failures, and the prompt of iteration 1 contains none.
C21_EveryLaterPromptHasReport ==
    \A k \in 1..Len(prompts) :
        IF k = 1
        THEN prompts[k].failureReport = Undefined
        ELSE /\ FailedBefore(k) # {}
             /\ prompts[k].failureReport
                  = Some(ReportOf(Greatest(FailedBefore(k))))

\* C21, amended: the prompt of iteration k carries the iteration number k;
\* it contains a failure report exactly when k > 1 and some earlier
\* iteration's verification completed with failures, and then it is the
\* report of the most recent such iteration; after verification runs that
\* all threw the prompt contains no report.
C21_PromptReport ==
    \A k \in 1..Len(prompts) :
        /\ prompts[k].iteration = k
        /\ IF k > 1 /\ FailedBefore(k) # {}
           THEN prompts[k].failureReport
                  = Some(ReportOf(Greatest(FailedBefore(k))))
           ELSE prompts[k].failureReport = Undefined

\* The third prompt is built after a failing run and a run that threw, and
\* carries the report of the first iteration.
C21_Witness ==
    /\ Len(prompts) >= 3
    /\ runs[1] = "failed"
    /\ runs[2] = "threw"
    /\ prompts[3].failureReport = Some(ReportOf(1))

\* The contents persisted under .litmus.
Persisted == {files[q] : q \in DOMAIN files}

\* C28: after iterations 1..k, for every iteration i <= k whose agent
\* invocation resolved, the prompt and the raw agent output of iteration i
\* are both still persisted, the output at the location of iteration i; no
\* later iteration has overwritten either.
C28_PromptAndOutputKept ==
    \A i \in verifyStarted :
        /\ prompts[i] \in Persisted
        /\ AgentOutputPath(i) \in DOMAIN files
        /\ files[AgentOutputPath(i)] = AgentOutput(i)

\* C30: every LoopResult returned by runRalphLoop carries a defined
\* finalSummary, the summary of the most recent verification run that
\* completed without throwing, on every return path.
C30_FinalSummaryDefined ==
    IsDefined(result) =>
        /\ IsDefined(result[1].finalSummary)
        /\ \E k \in 1..Len(runs) : runs[k] # "threw"
        /\ result[1].finalSummary = lastSummary

\* ---------------------------------------------- claims on evidence capture
\* What became of the evidence capture of the scenario being (or last) run.
Evidence == IF events = <<>> THEN "none" ELSE events[Len(events)].evidence

\* C22: when action k fails and evidence capture fails at any point (making
\* the screenshot directory or taking the screenshot), executeScenario still
\* returns a failed result with failedStep = k and k step results and no
\* screenshot path; a screenshot path is on the step result only when the
\* capture succeeded.
C22_CaptureFailureSwallowed ==
    /\ \A k \in 1..Len(Attempts) :
         ( /\ epc \in {"returned", "threw"}
           /\ Attempts[k].outcome = "failed"
           /\ Evidence \in {"mkdir threw", "screenshot failed"} ) =>
            /\ ExecutorReturned
            /\ ExecutorResult.passed = FALSE
            /\ ExecutorResult.failedStep = Some(k)
            /\ Len(ExecutorResult.stepResults) = k
            /\ ExecutorResult.stepResults[k].screenshotPath = FALSE
            /\ ExecutorResult.screenshotPath = FALSE
    /\ \A j \in 1..Len(results) :
         \A m \in 1..Len(results[j].stepResults) :
            results[j].stepResults[m].screenshotPath
               => events[j].evidence = "saved"


\* ------------------------------------------------ scenarios: writer, parser
\* Texts are sequences of characters.  The em dash, U+2014, is named.
EmDash == "EMDASH"

LowerLetters ==
    << "a", "b", "c", "d", "e", "f", "g", "h", "i", "j", "k", "l", "m",
       "n", "o", "p", "q", "r", "s", "t", "u", "v", "w", "x", "y", "z" >>

UpperLetters ==
    << "A", "B", "C", "D", "E", "F", "G", "H", "I", "J", "K", "L", "M",
       "N", "O", "P", "Q", "R", "S", "T", "U", "V", "W", "X", "Y", "Z" >>

toUpperCase(c) ==
    IF \E k \in 1..26 : LowerLetters[k] = c
    THEN UpperLetters[CHOOSE k \in 1..26 : LowerLetters[k] = c]
    ELSE c

toLowerCase(c) ==
    IF \E k \in 1..26 : UpperLetters[k] = c
    THEN LowerLetters[CHOOSE k \in 1..26 : UpperLetters[k] = c]
    ELSE c

\* writer.ts, lines 74-76.
capitalize(text) ==
    IF text = <<>> THEN <<>> ELSE <<toUpperCase(text[1])>> \o Tail(text)

\* Array.prototype.join("\n").
RECURSIVE joinLines(_)
joinLines(lines) ==
    IF lines = <<>> THEN <<>>
    ELSE IF Len(lines) = 1 THEN lines[1]
    ELSE lines[1] \o <<"\n">> \o joinLines(Tail(lines))

\* String.prototype.split(separator), the separator being one character.
RECURSIVE split(_, _)
split(s, separator) ==
    LET hits == {k \in 1..Len(s) : s[k] = separator}
    IN  IF hits = {} THEN <<s>>
        ELSE LET k == Least(hits)
             IN  <<SubSeq(s, 1, k - 1)>> \o
                 split(SubSeq(s, k + 1, Len(s)), separator)

\* The decimal text of a number below 10.
toString(n) == <<DecimalDigits[n + 1]>>

\* writer.ts, lines 28-65.
formatScenario(s) ==
    joinLines(
        << <<"-", "-", "-">>,
           <<"p", "r", "i", "o", "r", "i", "t", "y", ":", " ">> \o s.metadata.priority,
           <<"t", "y", "p", "e", ":", " ">> \o s.metadata.type,
           <<"c", "o", "n", "f", "i", "d", "e", "n", "c", "e", ":", " ">> \o s.metadata.confidence,
           <<"-", "-", "-">>,
           <<>>,
           <<"#", " ">> \o capitalize(s.category) \o <<" ", EmDash, " ">> \o s.name,
           <<>>,
           <<"#", "#", " ", "C", "o", "n", "t", "e", "x", "t">> >> \o
        [k \in 1..Len(s.context) |-> <<"-", " ">> \o s.context[k]] \o
        << <<>>, <<"#", "#", " ", "S", "t", "e", "p", "s">> >> \o
        [k \in 1..Len(s.steps) |-> toString(k) \o <<".", " ">> \o s.steps[k]] \o
        << <<>>, <<"#", "#", " ", "E", "x", "p", "e", "c", "t", "e", "d">> >> \o
        [k \in 1..Len(s.expected) |-> <<"-", " ">> \o s.expected[k]] \o
        << <<>> >>)

\* The first index from `from` on that holds no character of S, or one
\* past the end.
FirstNot(s, from, S) ==
    Least({k \in from..(Len(s) + 1) : k = Len(s) + 1 \/ s[k] \notin S})

\* The last index of the line that holds index `from`.
LineEnd(s, from) ==
    Least({h \in from..(Len(s) + 1) : h = Len(s) + 1 \/ s[h] = "\n"}) - 1

\* The value of key: value among the lines of a front matter block.
Field(lines, key) ==
    LET hits == {k \in 1..Len(lines) : startsWith(lines[k], key \o <<":", " ">>)}
    IN  IF hits = {} THEN Undefined
        ELSE Some(trim(sliceFrom(lines[Least(hits)], Len(key) + 2)))

\* matter(raw) of gray-matter: the block between a leading --- line and
\* the next --- line is the data, the text after it (less one newline) the
\* content; a text without a leading --- line is all content.
matter(raw) ==
    IF ~startsWith(raw, <<"-", "-", "-", "\n">>) THEN [data |-> <<>>, content |-> raw]
    ELSE LET closes == {i \in 4..Len(raw) : StartsWith(raw, i, <<"\n", "-", "-", "-">>)}
         IN  IF closes = {}
             THEN [data |-> split(sliceFrom(raw, 4), "\n"),
                   content |-> <<>>]
             ELSE LET close == Least(closes)
                      rest == sliceFrom(raw, close + 3)
                  IN  [data |-> split(SubSeq(raw, 5, close - 1), "\n"),
                       content |-> IF startsWith(rest, <<"\n">>)
                                   THEN Tail(rest) ELSE rest]

\* a ?? b.
OrElse(o, default) == IF IsDefined(o) THEN o[1] ELSE default

\* basename(filePath, ".md") of the file the text was read from.
FileBaseName == <<"f", "i", "l", "e">>

\* content.match(/^#\s+(.+)$/m)?.[1] ?? basename(filePath, ".md"): at the
\* first line start holding # and white space, the white space is skipped
\* as far as a character other than a newline follows, and the group runs
\* to the end of that line.
HeadingOf(content) ==
    LET GroupStarts(i) ==
            {q \in (i + 2)..Min(FirstNot(content, i + 1, Whitespace),
                                Len(content)) : content[q] # "\n"}
        starts == {i \in 1..Len(content) :
                     /\ i = 1 \/ content[i - 1] = "\n"
                     /\ content[i] = "#"
                     /\ GroupStarts(i) # {}}
    IN  IF starts = {} THEN FileBaseName
        ELSE LET from == Greatest(GroupStarts(Least(starts)))
             IN  SubSeq(content, from, LineEnd(content, from))

\* part_003, lines 59-60: the second part of the heading split at em
\* dashes, or the only part.
NameOf(heading) ==
    LET parts == split(heading, EmDash)
    IN  IF Len(parts) > 1 THEN trim(parts[2]) ELSE trim(parts[1])

\* line.replace(/^\s*[-*]\s+/, "").
StripBullet(line) ==
    LET a == FirstNot(line, 1, Whitespace)
    IN  IF /\ a + 1 <= Len(line)
           /\ line[a] \in {"-", "*"}
           /\ line[a + 1] \in Whitespace
        THEN sliceFrom(line, FirstNot(line, a + 1, Whitespace) - 1)
        ELSE line

\* line.replace(/^\s*\d+\.\s+/, "").
StripNumber(line) ==
    LET a == FirstNot(line, 1, Whitespace)
        d == FirstNot(line, a, DigitChars)
    IN  IF /\ d > a
           /\ d + 1 <= Len(line)
           /\ line[d] = "."
           /\ line[d + 1] \in Whitespace
        THEN sliceFrom(line, FirstNot(line, d + 1, Whitespace) - 1)
        ELSE line

EqualsIgnoringCase(s, t) ==
    /\ Len(s) = Len(t)
    /\ \A k \in 1..Len(s) : toLowerCase(s[k]) = toLowerCase(t[k])

\* Where the group of /##\s+NAME\s*\n([\s\S]*?)(?=\n##\s|$)/i starts for a
\* match that starts at i, or 0: after ## and white space comes the name,
\* then white space up to and including its last newline.
SectionBody(content, sectionName, i) ==
    LET k == FirstNot(content, i + 2, Whitespace)
        e == k + Len(sectionName)
        w == FirstNot(content, e, Whitespace)
        newlines == {q \in e..(w - 1) : content[q] = "\n"}
    IN  IF /\ StartsWith(content, i, <<"#", "#">>)
           /\ k > i + 2
           /\ e - 1 <= Len(content)
           /\ EqualsIgnoringCase(SubSeq(content, k, e - 1), sectionName)
           /\ newlines # {}
        THEN Greatest(newlines) + 1
        ELSE 0

\* part_003, lines 79-94.
extractSection(content, sectionName) ==
    LET starts == {i \in 1..Len(content) :
                     SectionBody(content, sectionName, i) > 0}
    IN  IF starts = {} THEN <<>>
        ELSE LET from == SectionBody(content, sectionName, Least(starts))
                 until == Least({h \in from..(Len(content) + 1) :
                                   \/ h = Len(content) + 1
                                   \/ /\ StartsWith(content, h, <<"\n", "#", "#">>)
                                      /\ h + 3 <= Len(content)
                                      /\ content[h + 3] \in Whitespace})
                 sectionContent == trim(SubSeq(content, from, until - 1))
                 lines == split(sectionContent, "\n")
                 items == [k \in 1..Len(lines) |->
                             trim(StripNumber(StripBullet(lines[k])))]
             IN  SelectSeq(items, LAMBDA line : Len(line) > 0)

\* part_003, lines 37-77; the category and the path are left out.
parseScenario(raw) ==
    LET m == matter(raw)
    IN  [ name |-> NameOf(HeadingOf(m.content)),
          context |-> extractSection(m.content, <<"C", "o", "n", "t", "e", "x", "t">>),
          steps |-> extractSection(m.content, <<"S", "t", "e", "p", "s">>),
          expected |-> extractSection(m.content, <<"E", "x", "p", "e", "c", "t", "e", "d">>),
          metadata |->
            [ priority |-> OrElse(Field(m.data, <<"p", "r", "i", "o", "r", "i", "t", "y">>), <<"m", "e", "d", "i", "u", "m">>),
              type |-> OrElse(Field(m.data, <<"t", "y", "p", "e">>), <<"h", "a", "p", "p", "y", "-", "p", "a", "t", "h">>),
              confidence |-> OrElse(Field(m.data, <<"c", "o", "n", "f", "i", "d", "e", "n", "c", "e">>),
                                    <<"d", "i", "r", "e", "c", "t">>) ] ]

MaxItems == 2

Items == { <<"a">>, <<"g", "o", " ", "o", "n">>, <<"1", ".", " ", "a">> }

ItemLists == UNION {[1..n -> Items] : n \in 0..MaxItems}

ScenarioInputs ==
    [ name : { <<"o", "k">>, <<"L", "o", "g", " ", "i", "n">> },
      category : { <<"a", "u", "t", "h">> },
      context : ItemLists,
      steps : ItemLists,
      expected : ItemLists,
      metadata : { [priority |-> <<"h", "i", "g", "h">>, type |-> <<"h", "a", "p", "p", "y", "-", "p", "a", "t", "h">>,
                    confidence |-> <<"d", "i", "r", "e", "c", "t">>],
                   [priority |-> <<"l", "o", "w">>, type |-> <<"e", "d", "g", "e", "-", "c", "a", "s", "e">>,
                    confidence |-> <<"i", "n", "f", "e", "r", "r", "e", "d">>] } ]

FormatScenario ==
    /\ wpc = "start"
    /\ wpc' = "formatted"
    /\ scnText' = formatScenario(scnInput[1])
    /\ UNCHANGED <<scnInput, scnParsed>>
    /\ UNCHANGED <<cbVars, loopVars, runVars, cmdVars, srvVars, trVars,
                   actVars, agtVars, tdVars>>

ParseScenario ==
    /\ wpc = "formatted"
    /\ wpc' = "parsed"
    /\ scnParsed' = Some(parseScenario(scnText))
    /\ UNCHANGED <<scnInput, scnText>>
    /\ UNCHANGED <<cbVars, loopVars, runVars, cmdVars, srvVars, trVars,
                   actVars, agtVars, tdVars>>

InitScenario ==
    /\ CBIdle
    /\ LoopIdle
    /\ RunIdle
    /\ CmdIdle
    /\ SrvIdle
    /\ TrIdle
    /\ ActIdle
    /\ AgtIdle
    /\ TdIdle
    /\ wpc = "start"
    /\ scnInput \in {Some(s) : s \in ScenarioInputs}
    /\ scnText = <<>>
    /\ scnParsed = Undefined

NextScenario == FormatScenario \/ ParseScenario

SpecScenario == InitScenario /\ [][NextScenario]_vars

\* C27: for every scenario S, parsing the text produced by
\* formatScenario(S) yields a scenario whose context, steps and expected
\* lists equal those of S element for element and in the same order, and
\* whose name and metadata equal those of S.
C27_RoundTrip ==
    wpc = "parsed" =>
        /\ scnParsed[1].context = scnInput[1].context
        /\ scnParsed[1].steps = scnInput[1].steps
        /\ scnParsed[1].expected = scnInput[1].expected
        /\ scnParsed[1].name = scnInput[1].name
        /\ scnParsed[1].metadata = scnInput[1].metadata

\* ------------------------------------------------ claims on executeAction
\* The pass of the loop has ended and a locator was resolved for the
\* selector of the element.
Resolved ==
    apc = "settled" /\ IsDefined(located) /\ IsDefined(action.selector)

TheSelector == action.selector[1]

\* The six strategies of the classification as stated, in their order, each
\* with the test that selects it.
SixStrategies ==
    << "role shorthand", "bracketed role", "text=", "regex", "prefix",
       "structural" >>

AppliesOfSix(strategy, s) ==
    CASE strategy = "role shorthand" -> RoleShorthand(s)
      [] strategy = "bracketed role" -> BracketedRole(s)
      [] strategy = "text=" -> startsWith(s, <<"t", "e", "x", "t", "=">>)
      [] strategy = "regex" -> RegexLike(s)
      [] strategy = "prefix" ->
            \/ startsWith(s, <<"p", "l", "a", "c", "e", "h", "o", "l", "d", "e", "r", "=">>)
            \/ startsWith(s, <<"l", "a", "b", "e", "l", "=">>)
            \/ startsWith(s, <<"t", "e", "s", "t", "i", "d", "=">>)
      [] OTHER -> TRUE

\* The strategy a locator stands for, the three prefixes taken as one.
StrategyOf(loc) ==
    IF loc.strategy \in {"placeholder=", "label=", "testid="} THEN "prefix"
    ELSE loc.strategy

\* C24 as stated: for every selector exactly one of the six strategies is
\* chosen, the first in priority order whose test applies, with the
\* structural selector as the terminal fallback.
C24_OneOfSix ==
    Resolved =>
        StrategyOf(located[1]) =
            SixStrategies[Least({k \in 1..6 :
                                   AppliesOfSix(SixStrategies[k],
                                                TheSelector)})]

\* The strategies of resolveLocator in the order of their tests.
EightStrategies ==
    << "body", "role shorthand", "bracketed role", "text=", "regex",
       "getByText regex", "prefix", "structural" >>

AppliesOfEight(strategy, s) ==
    CASE strategy = "body" ->
            startsWith(s, <<"t", "i", "m", "e", "o", "u", "t", "=">>) \/ startsWith(s, <<"t", "i", "m", "e", "o", "u", "t", ":">>)
      [] strategy = "getByText regex" -> GetByTextRegex(s)
      [] OTHER -> AppliesOfSix(strategy, s)

\* C24, amended: classification is total and deterministic over eight
\* strategies: a timeout= or timeout: selector is replaced by the page
\* body, then role shorthand, bracketed role, text=, bare /pattern/flags,
\* getByText(/pattern/flags), the placeholder/label/test-id prefixes, and
\* the structural selector as the single terminal fallback; the first test
\* that applies decides, and resolving the same string again gives the
\* same locator.
C24_OneOfEight ==
    Resolved =>
        /\ StrategyOf(located[1]) =
             EightStrategies[Least({k \in 1..8 :
                                      AppliesOfEight(EightStrategies[k],
                                                     TheSelector)})]
        /\ Cardinality({k \in 1..8 :
                          StrategyOf(located[1]) = EightStrategies[k]}) = 1
        /\ resolveLocator(TheSelector) = located[1]

\* A click on label=ok is resolved by its prefix, and one on timeout=5 by
\* the page body.
C24_Witness ==
    /\ Resolved
    /\ action.type = "click"
    /\ \/ TheSelector = <<"l", "a", "b", "e", "l", "=", "o", "k">> /\ located[1].strategy = "label="
       \/ TheSelector = <<"t", "i", "m", "e", "o", "u", "t", "=", "5">> /\ located[1].strategy = "body"

\* An assert whose locator was built.
Asserted == Resolved /\ action.type = "assert" /\ ~located[1].threw

\* C25: an assert passes only if the resolved element becomes visible
\* within the timeout and, when a value is supplied, the text content of
\* that element contains the value; otherwise the action fails, with an
\* "expected X, got Y" message on a text mismatch.
C25_AssertNeedsVisibleElement ==
    Asserted =>
        LET holds == /\ page.visible
                     /\ IsDefined(action.value)
                          => TextIncludes(page.text, action.value[1])
        IN  /\ stepOutcome = "passed" <=> holds
            /\ (page.visible /\ ~holds) => stepError = ExpectedTextError

\* A wait whose selector is neither missing, empty nor numeric, and whose
\* locator was built.
WaitedForElement ==
    /\ Resolved
    /\ action.type = "wait"
    /\ ~located[1].threw

WaitDone == apc = "settled" /\ action.kind = "object" /\ action.type = "wait"

\* The sleeping cases of a wait: a numeric selector, or none.
WaitSleeps ==
    WaitDone =>
        /\ (IsDefined(action.selector) /\ Numeric(TheSelector)) =>
              /\ stepOutcome = "passed"
              /\ slept = Some(parseInt(TheSelector))
        /\ ~TruthyText(action.selector) =>
              /\ stepOutcome = "passed"
              /\ slept = Some(DefaultWaitMs)

Malformed(a) ==
    \/ a.kind # "object"
    \/ a.type \notin ActionTypes
    \/ a.type = "navigate" /\ ~IsDefined(a.url)
    \/ a.type \in {"click", "fill", "select", "assert"}
         /\ ~IsDefined(a.selector)
    \/ a.type \in {"fill", "select"} /\ ~IsDefined(a.value)
    \/ a.type = "keyboard" /\ ~IsDefined(a.key)

\* C29: an action array containing a malformed element never yields a
\* passed VerificationResult and never aborts the run: the step of that
\* element does not pass (a result is passed only when every step passed),
\* so the scenario is reported failed.
C29_MalformedNeverPasses ==
    (apc = "settled" /\ Malformed(action)) =>
        stepOutcome \in {"failed", "rejected"}

\* ------------------------------------------------ coding-agent: invokeClaude
MaxChunks == 2

\* The exit code given to the close handler: null when a signal ended the
\* process.
ExitCodes == {"0", "1", "null"}

Event(type, code) == [type |-> type, code |-> code]

\* The value the promise is resolved with: success, and the output as the
\* source of its text, the chunks joined and the timed-out marker.
Result(success, source, count, timedOut) ==
    [ success |-> success, source |-> source, count |-> count,
      timedOut |-> timedOut ]

\* A promise stays settled: a second resolve has no effect.
resolve_LastWins(current, value) == Some(value)

resolve(current, value) ==
    IF IsDefined(current) THEN current ELSE Some(value)

Resolve(value) ==
    /\ settlement' = resolve(settlement, value)
    /\ resolveCalls' = Append(resolveCalls, value)

Delivered(type) == \E k \in 1..Len(procEvents) : procEvents[k].type = type

\* clearTimeout(timeout): an armed timer is cancelled, any other is left.
clearTimeout(t) == IF t = "armed" THEN "cleared" ELSE t

AgentFrame ==
    UNCHANGED <<cbVars, loopVars, runVars, cmdVars, srvVars, trVars,
                actVars, scnVars, tdVars>>

\* Lines 108-145: the process is spawned, the handlers are registered and
\* the 10-minute timer is armed.
SpawnClaude ==
    /\ gpc = "start"
    /\ gpc' = "spawned"
    /\ timer' = "armed"
    /\ UNCHANGED <<procEvents, chunks, errChunks, settlement, resolveCalls,
                   signals>>
    /\ AgentFrame

\* Lines 129-131.
StdoutData ==
    /\ gpc = "spawned"
    /\ ~Delivered("close")
    /\ chunks < MaxChunks
    /\ chunks' = chunks + 1
    /\ UNCHANGED <<gpc, timer, procEvents, errChunks, settlement,
                   resolveCalls, signals>>
    /\ AgentFrame

\* Lines 133-135.
StderrData ==
    /\ gpc = "spawned"
    /\ ~Delivered("close")
    /\ errChunks < MaxChunks
    /\ errChunks' = errChunks + 1
    /\ UNCHANGED <<gpc, timer, procEvents, chunks, settlement, resolveCalls,
                   signals>>
    /\ AgentFrame

\* Lines 138-145: the timer expires.
OnTimeout ==
    /\ gpc = "spawned"
    /\ timer = "armed"
    /\ timer' = "fired"
    /\ signals' = signals + 1
    /\ procEvents' = Append(procEvents, Event("timeout", "none"))
    /\ Resolve(Result(FALSE, "stdout", chunks, TRUE))
    /\ UNCHANGED <<gpc, chunks, errChunks>>
    /\ AgentFrame

\* Lines 147-159: the process and its streams have closed.
OnClose ==
    /\ gpc = "spawned"
    /\ ~Delivered("close")
    /\ \E code \in ExitCodes :
         /\ procEvents' = Append(procEvents, Event("close", code))
         /\ Resolve(IF code = "0" THEN Result(TRUE, "stdout", chunks, FALSE)
                    ELSE IF chunks > 0
                         THEN Result(FALSE, "stdout", chunks, FALSE)
                         ELSE Result(FALSE, "stderr", errChunks, FALSE))
    /\ timer' = clearTimeout(timer)
    /\ UNCHANGED <<gpc, chunks, errChunks, signals>>
    /\ AgentFrame

\* Lines 161-168: the process could not be spawned or signalled.
OnError ==
    /\ gpc = "spawned"
    /\ ~Delivered("error")
    /\ procEvents' = Append(procEvents, Event("error", "none"))
    /\ Resolve(Result(FALSE, "error", 0, FALSE))
    /\ timer' = clearTimeout(timer)
    /\ UNCHANGED <<gpc, chunks, errChunks, signals>>
    /\ AgentFrame

InitAgent ==
    /\ CBIdle
    /\ LoopIdle
    /\ RunIdle
    /\ CmdIdle
    /\ SrvIdle
    /\ TrIdle
    /\ ActIdle
    /\ ScnIdle
    /\ TdIdle
    /\ gpc = "start"
    /\ timer = "unset"
    /\ procEvents = <<>>
    /\ chunks = 0
    /\ errChunks = 0
    /\ settlement = Undefined
    /\ resolveCalls = <<>>
    /\ signals = 0

NextAgent ==
    \/ SpawnClaude
    \/ StdoutData
    \/ StderrData
    \/ OnTimeout
    \/ OnClose
    \/ OnError

SpecAgent == InitAgent /\ [][NextAgent]_vars

\* The runtime runs the executor of the promise and fires an armed timer.
FairSpecAgent ==
    SpecAgent /\ WF_vars(SpawnClaude) /\ WF_vars(OnTimeout)

\* What holds of the settlement in every state.
SettledByFirst ==
    /\ IsDefined(settlement) <=> procEvents # <<>>
    /\ Len(resolveCalls) = Len(procEvents)
    /\ procEvents # <<>> =>
         LET first == procEvents[1]
             r == settlement[1]
         IN  /\ settlement = Some(resolveCalls[1])
             /\ first.type = "timeout" =>
                  /\ r = Result(FALSE, "stdout", r.count, TRUE)
                  /\ signals = 1
             /\ first.type = "close" =>
                  /\ r.success <=> first.code = "0"
                  /\ ~r.timedOut
             /\ first.type = "error" => r = Result(FALSE, "error", 0, FALSE)
             /\ r.success => first = Event("close", "0")
    /\ signals = Cardinality({k \in 1..Len(procEvents) :
                                procEvents[k].type = "timeout"})
    /\ signals <= 1

\* C23: once the process is spawned the invocation settles exactly once
\* and never rejects: the result is that of the first of timer expiry,
\* close and error; on timer expiry the process is sent SIGTERM and the
\* result is success = false with the timed-out marker, which a later
\* close or error does not change; success = true only if the process
\* closed with exit code 0 before the timer expired.
C23_SettlesOnce ==
    /\ []SettledByFirst
    /\ [][IsDefined(settlement) => settlement' = settlement]_vars
    /\ (gpc = "spawned") ~> IsDefined(settlement)

\* The timer expired first and the process closed afterwards, killed by the
\* signal: the result is still the timed-out one.
C23_Witness ==
    /\ Len(procEvents) = 2
    /\ procEvents[1].type = "timeout"
    /\ procEvents[2] = Event("close", "null")
    /\ settlement = Some(Result(FALSE, "stdout", chunks, TRUE))
    /\ signals = 1

\* ------------------------------------------------ claims, third part
\* C38: the breaker is append-only and its queries are pure: record
\* appends exactly one entry and leaves the earlier entries as they were,
\* shouldStop and getStuckScenarios leave the history as it was, and a
\* call of either repeated without a record in between returns what the
\* call before it returned.
C38_AppendOnlyPureQueries ==
    [][ pc = "idle" =>
          \/ /\ Len(history') = Len(history) + 1
             /\ SubSeq(history', 1, Len(history)) = history
          \/ /\ history' = history
             /\ stopReason # "not called" => stopReason' = stopReason
             /\ IsDefined(stuck) => stuck' = stuck ]_vars

\* Both queries were called on a history long enough for them to slice it.
C38_Witness ==
    /\ pc = "idle"
    /\ Len(history) > OscillationSpan
    /\ stopReason \notin {"not called", Continue}
    /\ IsDefined(stuck)
    /\ stuck[1] # <<>>

\* C36: every VerificationSummary returned by runAllScenarios has total =
\* passed + failed = number of results = number of scenarios selected
\* after filtering, total >= 1, and its results in ascending scenario
\* file-path order, one result per scenario.
C36_SummaryCounts ==
    IsDefined(summary) =>
        LET sm == summary[1]
        IN  /\ sm.total = sm.passed + sm.failed
            /\ sm.total = Len(sm.results)
            /\ sm.total = Len(scenarios)
            /\ sm.total >= 1
            /\ \A i, j \in 1..Len(sm.results) :
                 i < j => Before(sm.results[i].scenario,
                                 sm.results[j].scenario)
            /\ \A j \in 1..Len(scenarios) :
                 Cardinality({i \in 1..Len(sm.results) :
                                sm.results[i].scenario = scenarios[j]}) = 1

\* A summary over the two files a.md and a/b.md, which the walk can meet in
\* either order, one passed and one failed.
C36_Witness ==
    /\ IsDefined(summary)
    /\ scenarios = << <<"a", ".", "m", "d">>,
                      <<"a", "/", "b", ".", "m", "d">> >>
    /\ summary[1].passed = 1
    /\ summary[1].failed = 1

\* C35: executeScenario returns passed = true if and only if every action
\* of the list was attempted and succeeded; the result then has exactly one
\* passed step result per action, numbered 1..n in list order, and no
\* failedStep (for an empty list: a passing result with no step results).
C35_PassedIffAllSucceeded ==
    (rpc = "executing" /\ ExecutorReturned) =>
        LET r == ExecutorResult
        IN  /\ r.passed <=>
                 /\ Len(Attempts) = actions
                 /\ \A m \in 1..actions : Attempts[m].outcome = "passed"
            /\ r.passed =>
                 /\ Len(r.stepResults) = actions
                 /\ \A m \in 1..actions :
                      /\ r.stepResults[m].step = m
                      /\ r.stepResults[m].passed
                 /\ r.failedStep = Undefined

\* A list of two actions was executed and the result is passed.
C35_Witness ==
    /\ rpc = "executing"
    /\ ExecutorReturned
    /\ actions = 2
    /\ ExecutorResult.passed
    /\ Len(ExecutorResult.stepResults) = 2

\* scenario.steps of the scenario file at a path.
StepsOf(path) ==
    IF path = <<"a", ".", "m", "d">> THEN <<"open the page">>
    ELSE IF path = <<"b", ".", "m", "d">> THEN <<"open the page", "press Save">>
    ELSE <<"open the page", "type a name", "press Save">>

\* array[index - 1]: the element, or undefined past the end.
ElementAt(arr, index) ==
    IF index \in 1..Len(arr) THEN Some(arr[index]) ELSE Undefined

\* part_002, lines 188-212: the section formatFailureReport writes for one
\* failing result: the file path, and for a result with a failedStep the
\* line "Failed at step <failedStep>: <scenario.steps[failedStep - 1]>".
FailureSection(r) ==
    [ filePath |-> r.scenario,
      failedAt |->
        IF IsDefined(r.failedStep)
        THEN Some([ number |-> r.failedStep[1],
                    step |-> ElementAt(StepsOf(r.scenario),
                                       r.failedStep[1]) ])
        ELSE Undefined ]

\* part_002, lines 183-212: one section per result that did not pass.
FailureSections(sm) ==
    LET failures == SelectSeq(sm.results, LAMBDA r : ~r.passed)
    IN  [i \in 1..Len(failures) |-> FailureSection(failures[i])]

\* C34: for every failing result with failedStep = k the failed-step line of
\* the failure report names a step of that scenario: k is a valid 1-based
\* index into the scenario's steps and the text printed is that step; the
\* report has one section per failing result and none for a passing one.
C34_FailedStepNamesAStep ==
    IsDefined(summary) =>
        LET sm == summary[1]
            sections == FailureSections(sm)
        IN  /\ Len(sections) = sm.failed
            /\ \A j \in 1..Len(sm.results) :
                 LET r == sm.results[j]
                     own == {i \in 1..Len(sections) :
                               sections[i].filePath = r.scenario}
                 IN  /\ Cardinality(own) = IF r.passed THEN 0 ELSE 1
                     /\ (~r.passed /\ IsDefined(r.failedStep)) =>
                          \A i \in own :
                            /\ r.failedStep[1] \in 1..Len(StepsOf(r.scenario))
                            /\ sections[i].failedAt =
                                 Some([ number |-> r.failedStep[1],
                                        step |-> Some(StepsOf(r.scenario)
                                                       [r.failedStep[1]]) ])

\* The scenarios of the run for which ensureBrowser resolved.
GotBrowser ==
    {j \in 1..Len(events) :
       events[j].setup \in {"ok", "newContext rejected", "newPage rejected"}}

\* C32: within one verification run the shared browser is launched at most
\* once: the first scenario that reaches execution launches it and the
\* handle stays set for every later scenario of the run, so none of them
\* launches again; and when runAllScenarios has returned or thrown, no
\* browser launched by the run is left open and the handle is cleared.
C32_BrowserOncePerRun ==
    /\ (rpc \in {"scenarios", "executing"} /\ GotBrowser # {}) =>
          browser = "open"
    /\ (rpc \in {"scenarios", "executing"} /\ GotBrowser = {}) =>
          browser = "none"
    /\ rpc \in {"done", "threw"} => browser = "none"

\* C31: whenever a server process spawned by startDevServer is still
\* running, the module-level handle refers to it: the exit notification of
\* a server stopped or replaced earlier never clears the handle of a newer
\* one, so a later stopDevServer signals the running spawned server.
C31_HandleFollowsServer ==
    /\ (spc \in {"poll", "returned"} /\ SpawnedChild \in running) =>
          serverProcess = SpawnedChild
    /\ (spc = "threw" /\ SpawnedChild \in running) =>
          \E k \in 1..Len(serverLog) : serverLog[k] = Signal(SpawnedChild)

\* ------------------------------------------------ teardown
\* Calls of closeBrowser and of stopDevServer made in succession.
MaxCalls == 2

\* Mutant of closeBrowser: the handle is kept after the close.
closeBrowser_KeepHandle(handle, resolves) ==
    IF handle = "none" THEN [did |-> "nothing", browser |-> handle]
    ELSE IF resolves THEN [did |-> "closed", browser |-> handle]
    ELSE [did |-> "rejected", browser |-> handle]

\* executor.ts, lines 25-30: with a handle set, browser.close() is awaited
\* and the handle cleared after it resolved; a rejection leaves the
\* function before the assignment.
closeBrowser(handle, resolves) ==
    IF handle = "none" THEN [did |-> "nothing", browser |-> handle]
    ELSE IF resolves THEN [did |-> "closed", browser |-> "none"]
    ELSE [did |-> "rejected", browser |-> handle]

Stops ==
    Cardinality({k \in 1..Len(serverLog) : serverLog[k] = KillPort})

TeardownFrame ==
    UNCHANGED <<cbVars, runVars, cmdVars, trVars, actVars, scnVars, agtVars>>

CloseBrowser ==
    /\ Len(closeLog) < MaxCalls
    /\ \E resolves \in BOOLEAN :
         LET call == closeBrowser(browser, resolves)
         IN  /\ closeLog' = Append(closeLog, call.did)
             /\ browser' = call.browser
    /\ UNCHANGED <<pc, maxIterations, iteration, agentResult, lastSummary,
                   lastFailureReport, result, thrown, agentCalls, agentThrew,
                   verifyStarted, runs, reportsWritten, serverStops,
                   prompts, files>>
    /\ UNCHANGED srvVars
    /\ TeardownFrame

\* dev-server.ts, lines 64-75.
StopDevServer ==
    /\ Stops < MaxCalls
    /\ serverLog' = serverLog \o stopDevServer(serverProcess)
    /\ serverProcess' = NoProcess
    /\ UNCHANGED <<spc, devCommand, running, elapsed, probes, lastProbe,
                   srvError>>
    /\ UNCHANGED <<loopVars, closeLog>>
    /\ TeardownFrame

\* The exit handler of lines 54-56 runs for a child that has ended.
TeardownChildExit ==
    /\ \E child \in running : running' = running \ {child}
    /\ serverProcess' = NoProcess
    /\ UNCHANGED <<spc, devCommand, elapsed, probes, lastProbe, srvError,
                   serverLog>>
    /\ UNCHANGED <<loopVars, closeLog>>
    /\ TeardownFrame

\* Teardown starts with or without a browser launched, and with or without
\* server processes alive, one of which may be held.
InitTeardown ==
    /\ CBIdle
    /\ RunIdle
    /\ CmdIdle
    /\ TrIdle
    /\ ActIdle
    /\ ScnIdle
    /\ AgtIdle
    /\ pc = "idle"
    /\ maxIterations = 0
    /\ iteration = 0
    /\ agentResult = Undefined
    /\ lastSummary = Undefined
    /\ lastFailureReport = Undefined
    /\ result = Undefined
    /\ thrown = "none"
    /\ browser \in {"none", "open"}
    /\ agentCalls = 0
    /\ agentThrew = FALSE
    /\ verifyStarted = {}
    /\ runs = <<>>
    /\ reportsWritten = {}
    /\ serverStops = 0
    /\ prompts = <<>>
    /\ files = <<>>
    /\ spc = "idle"
    /\ devCommand = FALSE
    /\ running \in SUBSET {EarlierChild, SpawnedChild}
    /\ serverProcess \in {NoProcess} \cup running
    /\ elapsed = 0
    /\ probes = 0
    /\ lastProbe = Undefined
    /\ srvError = "none"
    /\ serverLog = <<>>
    /\ closeLog = <<>>

NextTeardown == CloseBrowser \/ StopDevServer \/ TeardownChildExit

SpecTeardown == InitTeardown /\ [][NextTeardown]_vars

SignalsTo(child) ==
    Cardinality({k \in 1..Len(serverLog) : serverLog[k] = Signal(child)})

Closed == {k \in 1..Len(closeLog) : closeLog[k] = "closed"}

\* stopDevServer called in succession signals a spawned server at most once
\* and leaves the handle cleared after each call.
StopIsIdempotent ==
    /\ \A child \in {EarlierChild, SpawnedChild} : SignalsTo(child) <= 1
    /\ Stops >= 1 => serverProcess = NoProcess

C37_RecordsWellFormed ==
    pc # "idle" =>
        /\ \A k \in 1..Len(history) :
             LET r == history[k]
                 fs == r.failingScenarios
             IN  /\ r.failed >= 1
                 /\ r.failed = Len(fs)
                 /\ k > 1 => history[k - 1].iteration < r.iteration
                 /\ \A i, j \in 1..Len(fs) : i < j => fs[i] < fs[j]
        /\ \A a, b \in 1..Len(history) :
             (JSONstringify(history[a].failingScenarios) =
                JSONstringify(history[b].failingScenarios))
             <=> (SetOf(history[a].failingScenarios) =
                    SetOf(history[b].failingScenarios))

\* The loop's breaker holds records of two iterations that are not
\* consecutive (a run in between threw), with different failing lists.
C37_Witness ==
    /\ pc # "idle"
    /\ Len(history) >= 2
    /\ history[2].iteration > history[1].iteration + 1
    /\ history[1].failingScenarios # history[2].failingScenarios
    /\ history[2].failed = 2

=============================================================================
